---- MODULE Spec2Model ----
(***************************************************************************)
(* budgie-cli: the generate-embeddings command (cmd.RunGenerateEmbeddings) *)
(* and the search-agent creation of the ask command                        *)
(* (rag.CreateSearchAgent), as a state machine.                            *)
(*                                                                         *)
(* Paths are records [abs, parts]: parts is the sequence of path           *)
(* components, abs tells whether the path starts at the file-system root.  *)
(* A relative path is resolved against the working directory.              *)
(* Texts, flag values, extensions and chunk ids are strings.               *)
(***************************************************************************)
EXTENDS Integers, Sequences, FiniteSets, TLC

VARIABLES
    flags,          \* the command-line flags of the invocation (lines 22-31)
    env,            \* working directory, presence of <project>/.budgie, prior index
    pc,             \* position of RunGenerateEmbeddings
    result,         \* "running", "ok" or the error returned
    io,             \* kinds of I/O performed so far by the command
    configFile,     \* local configFile after path resolution
    docsPath,       \* local docsPath after path resolution
    config,         \* the loaded Config, or NoConfig
    storePath,      \* path handed to WithMemoryVectorStore, or NoPath
    store,          \* in-memory vector store of the agent: sequence of records
    storeReset,     \* ResetMemoryVectorStore has been called
    fileExtension,  \* extension used for discovery
    foundFiles,     \* result of helpers.FindFiles
    fileIdx,        \* index in foundFiles of the file being processed
    chunks,         \* chunks of the current file
    chunkIdx,       \* number of chunks of the current file already handled
    chunkCount,     \* chunkCount of the command
    chunked,        \* log: one entry per chunked file (file, strategy, parameters)
    embedLog,       \* log: one entry per embedding call (id, text, ok)
    embedFailures,  \* number of failed embedding calls so far
    disk,           \* persisted index files: path -> NoFile or sequence of records
    searchPath,     \* path that CreateSearchAgent stats and loads, or NoPath
    readLog,        \* log: one entry per helpers.ReadTextFile call (file, ok)
    persistErr,     \* PersistMemoryVectorStore returned an error
    report,         \* the final "Successfully generated %d embeddings" message

    \* the ask command (cmd.RunAsk, processQuestion)
    askFlags,       \* flags of the ask invocation
    askConfig,      \* configuration loaded by the ask command
    askPc,          \* position of RunAsk / processQuestion
    askResult,      \* "running", "ok" or the error returned
    messages,       \* messages of processQuestion / conversation history
    userInput,      \* the question as given (flag value, file content, prompt input)
    ragRequested,   \* ragRequested of the current question
    actualQuestion, \* the question without its #rag prefix
    similarities,   \* similarities of the current question
    searchOutcome,  \* what the search of the current question ended with
    warned,         \* a warning was printed for the current question
    histBefore,     \* messages before the current question was handled
    lastSent,       \* Messages of the last chat completion requested
    turns,          \* number of inputs read at the interactive prompt
    searchCall,     \* arguments of the similarity search of the current question
    storeLoads,     \* number of LoadMemoryVectorStore calls of the run
    inputLog,       \* the last input read at the prompt and what its reads gave

    \* library functions applied to drawn inputs (rag.ChunkText, the search)
    fn,             \* one call: the function, its arguments and, once made, its result

    \* the init command (cmd.RunInit)
    initPc,         \* position of RunInit
    initFs,         \* the files and directories of the working directory
    initResult,     \* "running", "ok" or the error returned
    initFault,      \* the file-system call of this run that fails, if any
    initBefore,     \* the files and directories when the command started

    \* the ESC listeners of an interactive session (utils.SetupEscListener)
    escPc,          \* position of RunAsk: "from", "prompt", "streaming" or "returned"
    escTurn,        \* number of streams started; the context of stream t is t
    listeners,      \* position of the listener goroutine of each turn
    cancelled,      \* the contexts that are cancelled
    keyboardOpen,   \* the keyboard is opened (keyboard.Open without Close)
    lastKey,        \* the last key read: by whom, where RunAsk stood, what it did
    streamOutcome   \* how the last stream ended

genLogs == <<readLog, persistErr, report>>

askLogs == <<storeLoads, inputLog>>

askVars == <<askFlags, askConfig, askPc, askResult, messages, userInput, ragRequested,
             actualQuestion, similarities, searchOutcome, warned, histBefore,
             lastSent, turns, searchCall, storeLoads, inputLog>>

fnVars == <<fn>>

initVars == <<initPc, initFs, initResult, initFault, initBefore>>

escVars == <<escPc, escTurn, listeners, cancelled, keyboardOpen, lastKey, streamOutcome>>

genVars == <<pc, result, io, configFile, docsPath, config, storePath, store,
             storeReset, fileExtension, foundFiles, fileIdx, chunks, chunkIdx,
             chunkCount, chunked, embedLog, embedFailures, disk, readLog,
             persistErr, report>>

vars == <<flags, env, pc, result, io, configFile, docsPath, config, storePath,
          store, storeReset, fileExtension, foundFiles, fileIdx, chunks,
          chunkIdx, chunkCount, chunked, embedLog, embedFailures, disk,
          searchPath, readLog, persistErr, report, askVars, fnVars, initVars,
          escVars>>

-----------------------------------------------------------------------------
(* Bounds of the model *)

\* --chunk-size is drawn from -1 .. MaxChunkSize
MaxChunkSize == 2

\* --overlap is drawn from -1 .. MaxOverlap
MaxOverlap == 2

\* at most this many embedding calls fail in one run
MaxEmbedFailures == 1

\* longest text handed to the fixed-size chunker on its own
MaxTextLen == 5

\* largest chunk size of those calls
MaxWindow == 4

\* most records of a store that is searched
MaxRecords == 3

\* deepest directory below the root of the file system that a search for
\* .budgie starts in
MaxDepth == 3

\* inputs of one interactive session: the --from file and the lines read at
\* the prompt
MaxTurns == 2

-----------------------------------------------------------------------------
(* Strings *)

HasPrefix(s, p) == Len(s) >= Len(p) /\ SubSeq(s, 1, Len(p)) = p

TrimPrefix(s, p) == IF HasPrefix(s, p) THEN SubSeq(s, Len(p) + 1, Len(s)) ELSE s

-----------------------------------------------------------------------------
(* Paths: path/filepath *)

Rel(parts) == [abs |-> FALSE, parts |-> parts]

AbsPath(parts) == [abs |-> TRUE, parts |-> parts]

NoPath == [abs |-> FALSE, parts |-> <<"?">>]

\* filepath.Join(p, elem...)
Join(p, elems) == [abs |-> p.abs, parts |-> p.parts \o elems]

\* filepath.Dir(p): all but the last element; the root and "." are their own Dir
Dir(p) ==
    IF p.parts = <<>> THEN p
    ELSE [abs |-> p.abs, parts |-> SubSeq(p.parts, 1, Len(p.parts) - 1)]

\* filepath.Base(p): the last element
Base(p) == IF p.parts = <<>> THEN "." ELSE p.parts[Len(p.parts)]

\* filepath.Abs(p) in working directory wd (wd is absolute)
Abs(wd, p) == IF p.abs THEN p ELSE AbsPath(wd.parts \o p.parts)

-----------------------------------------------------------------------------
(* The file system the command runs in *)

ProjectRoot == AbsPath(<<"proj">>)

SubDir == AbsPath(<<"proj", "sub">>)

DefaultConfig == Rel(<<".budgie", "budgie.config.json">>)

CustomConfig == Rel(<<"alt", "budgie.config.json">>)

DefaultDocs == Rel(<<".budgie", "docs">>)

\* an index file: absent, or present with its records
NoFile == [exists |-> FALSE, records |-> <<>>]

IndexFile(records) == [exists |-> TRUE, records |-> records]

OldIndex == IndexFile(<<[id |-> "old.md-chunk-1", content |-> "old"]>>)

\* the index files that can exist
IndexPaths ==
    { Join(ProjectRoot, <<".budgie", "embeddings.json">>),
      Join(ProjectRoot, <<"alt", "embeddings.json">>) }

\* a chain of directories /d1/d2/...: tree[k] says what the entry .budgie of
\* the directory at depth k is ("none", "dir" or "file")
TreeIsDir(tree, p) ==
    \E k \in DOMAIN tree :
        LET d == [i \in 1 .. k |-> "d" \o ToString(i)]
        IN  /\ p.abs
            /\ \/ p.parts = d
               \/ p.parts = d \o <<".budgie">> /\ tree[k] = "dir"

\* directories
IsDir(e, p) ==
    IF "tree" \in DOMAIN e THEN TreeIsDir(e.tree, p) ELSE
    \/ p \in {AbsPath(<<>>), ProjectRoot, SubDir, Join(ProjectRoot, <<"alt">>)}
    \/ /\ e.hasBudgie
       /\ p \in { Join(ProjectRoot, <<".budgie">>),
                  Join(ProjectRoot, <<".budgie", "docs">>),
                  Join(ProjectRoot, <<".budgie", "docs", "api">>),
                  Join(ProjectRoot, <<".budgie", "docs", "guides">>) }

\* in a chain of directories d1/d2/... below the root: the path is the root
LevelPath(k) == AbsPath([i \in 1 .. k |-> "d" \o ToString(i)])

\* configuration files present
ConfigExists(e, p) ==
    \/ p = Join(ProjectRoot, <<"alt", "budgie.config.json">>)
    \/ e.hasBudgie /\ p = Join(ProjectRoot, <<".budgie", "budgie.config.json">>)

\* the documents under <project>/.budgie/docs, in walk (lexical) order,
\* relative to the docs directory, with their text
DocsTree ==
    << [rel |-> <<"api", "README.md">>,    ext |-> ".md",  text |-> "#a|b\n#c"],
       [rel |-> <<"empty.md">>,            ext |-> ".md",  text |-> ""],
       [rel |-> <<"guides", "README.md">>, ext |-> ".md",  text |-> "abc"],
       [rel |-> <<"notes.txt">>,           ext |-> ".txt", text |-> "abcd"] >>

DocsDir == Join(ProjectRoot, <<".budgie", "docs">>)

\* disk before the command starts
InitialDisk(e) ==
    [p \in IndexPaths |->
        IF p = Join(ProjectRoot, <<".budgie", "embeddings.json">>) /\ ~e.hasBudgie
        THEN NoFile ELSE e.prior]

\* content of the index file at absolute path p on disk d
FileAt(d, p) == IF p \in DOMAIN d THEN d[p] ELSE NoFile

-----------------------------------------------------------------------------
(* pkg/utils *)

RECURSIVE FindRootFrom(_, _)
FindRootFrom(e, currentPath) ==
    IF IsDir(e, Join(currentPath, <<".budgie">>))
    THEN [ok |-> TRUE, path |-> currentPath]
    ELSE IF Dir(currentPath) = currentPath
         THEN [ok |-> FALSE, path |-> NoPath]
         ELSE FindRootFrom(e, Dir(currentPath))

\* a search that looks in the start directory only
FindRootBudgieDir_StartOnly(e, startPath) ==
    IF IsDir(e, Join(Abs(e.cwd, startPath), <<".budgie">>))
    THEN [ok |-> TRUE, path |-> Abs(e.cwd, startPath)]
    ELSE [ok |-> FALSE, path |-> NoPath]

FindRootBudgieDir(e, startPath) == FindRootFrom(e, Abs(e.cwd, startPath))

\* ResolveBudgiePaths: err is "" on success; io is the I/O it performed
ResolveBudgiePaths(e, systemFile, cfgFile, vscodeMode, getwdOk) ==
    IF ~vscodeMode
    THEN [err |-> "", system |-> systemFile, config |-> cfgFile, io |-> {}]
    ELSE IF ~getwdOk
    THEN [err |-> "ErrGetwd", system |-> NoPath, config |-> NoPath, io |-> {"getwd"}]
    ELSE LET root == FindRootBudgieDir(e, e.cwd) IN
         IF ~root.ok
         THEN [err |-> "ErrNoBudgieDir", system |-> NoPath, config |-> NoPath,
               io |-> {"getwd", "stat"}]
         ELSE [err |-> "",
               system |-> Join(root.path, <<".budgie", "budgie.system.md">>),
               config |-> Join(root.path, <<".budgie", "budgie.config.json">>),
               io |-> {"getwd", "stat"}]

-----------------------------------------------------------------------------
(* Flag validation of RunGenerateEmbeddings *)

B2N(b) == IF b THEN 1 ELSE 0

ChunkingMethods(f) ==
    B2N(f.markdownHierarchy) + B2N(f.markdownSections) + B2N(f.delimiter /= "")
        + B2N(f.chunkSize > 0) + B2N(f.files)

\* mutant: the check lets two methods through
TooManyMethods_OffByOne(f) == ChunkingMethods(f) > 2

TooManyMethods(f) == ChunkingMethods(f) > 1

OverlapWithoutChunkSize(f) == f.overlap > 0 /\ f.chunkSize = 0

OverlapTooLarge(f) == f.chunkSize > 0 /\ f.overlap >= f.chunkSize

ExtensionNotAllowed(f) ==
    f.extension /= "" /\ f.delimiter = "" /\ f.chunkSize = 0 /\ ~f.files

ConfigErrors ==
    {"ErrMultipleMethods", "ErrOverlapNeedsChunkSize", "ErrOverlapTooLarge",
     "ErrExtension"}

\* the first failing check, in the order of the code; "" when all pass
ValidationError(f) ==
    IF TooManyMethods(f) THEN "ErrMultipleMethods"
    ELSE IF OverlapWithoutChunkSize(f) THEN "ErrOverlapNeedsChunkSize"
    ELSE IF OverlapTooLarge(f) THEN "ErrOverlapTooLarge"
    ELSE IF ExtensionNotAllowed(f) THEN "ErrExtension"
    ELSE ""

\* extension used for discovery
FileExtensionOf(f) ==
    IF f.extension /= "" /\ (f.delimiter /= "" \/ f.chunkSize > 0 \/ f.files)
    THEN IF HasPrefix(f.extension, ".") THEN f.extension ELSE "." \o f.extension
    ELSE ".md"

\* mutant: the chain falls through to sections instead of hierarchy
ChunkStrategyOf_DefaultSections(f) ==
    IF f.files THEN "files"
    ELSE IF f.chunkSize > 0 THEN "fixed"
    ELSE IF f.delimiter /= "" THEN "delimiter"
    ELSE "sections"

\* the branch of the chunking chain taken for every file
ChunkStrategyOf(f) ==
    IF f.files THEN "files"
    ELSE IF f.chunkSize > 0 THEN "fixed"
    ELSE IF f.delimiter /= "" THEN "delimiter"
    ELSE IF f.markdownSections THEN "sections"
    ELSE "hierarchy"

-----------------------------------------------------------------------------
(* The chunkers of the budgie library (package rag) *)

\* fixed-size window: starts 0, step, 2*step, ... with step = chunkSize - overlap
RECURSIVE ChunkTextFrom(_, _, _, _)
ChunkTextFrom(text, start, chunkSize, overlap) ==
    IF start > Len(text) THEN <<>>
    ELSE LET end == IF start + chunkSize - 1 > Len(text)
                    THEN Len(text) ELSE start + chunkSize - 1
         IN  <<SubSeq(text, start, end)>>
                \o ChunkTextFrom(text, start + (chunkSize - overlap), chunkSize, overlap)

\* a chunker that gives only full windows
ChunkText_FullWindows(text, chunkSize, overlap) ==
    LET Full(c) == Len(c) = chunkSize
    IN  SelectSeq(ChunkTextFrom(text, 1, chunkSize, overlap), Full)

ChunkText(text, chunkSize, overlap) == ChunkTextFrom(text, 1, chunkSize, overlap)

\* position of the first occurrence of sep in s at or after from, 0 if none
RECURSIVE IndexFrom(_, _, _)
IndexFrom(s, sep, from) ==
    IF from + Len(sep) - 1 > Len(s) THEN 0
    ELSE IF SubSeq(s, from, from + Len(sep) - 1) = sep THEN from
    ELSE IndexFrom(s, sep, from + 1)

\* strings.Split for a non-empty separator
RECURSIVE Split(_, _)
Split(s, sep) ==
    LET k == IndexFrom(s, sep, 1) IN
    IF k = 0 THEN <<s>>
    ELSE <<SubSeq(s, 1, k - 1)>> \o Split(SubSeq(s, k + Len(sep), Len(s)), sep)

IsSpace(c) == c \in {" ", "\n", "\t"}

RECURSIVE TrimLeft(_)
TrimLeft(s) ==
    IF Len(s) > 0 /\ IsSpace(SubSeq(s, 1, 1)) THEN TrimLeft(SubSeq(s, 2, Len(s))) ELSE s

RECURSIVE TrimRight(_)
TrimRight(s) ==
    IF Len(s) > 0 /\ IsSpace(SubSeq(s, Len(s), Len(s)))
    THEN TrimRight(SubSeq(s, 1, Len(s) - 1)) ELSE s

TrimSpace(s) == TrimLeft(TrimRight(s))

\* the non-empty trimmed elements of a sequence of strings
RECURSIVE NonEmpty(_)
NonEmpty(seq) ==
    IF seq = <<>> THEN <<>>
    ELSE (IF TrimSpace(Head(seq)) = "" THEN <<>> ELSE <<TrimSpace(Head(seq))>>)
            \o NonEmpty(Tail(seq))

\* split on every occurrence of the delimiter; empty fragments are dropped
SplitTextWithDelimiter(text, delimiter) == NonEmpty(Split(text, delimiter))

\* number of leading '#' of a line: its heading level, 0 for a body line
RECURSIVE HeadingLevel(_)
HeadingLevel(line) ==
    IF HasPrefix(line, "#") THEN 1 + HeadingLevel(SubSeq(line, 2, Len(line))) ELSE 0

\* sections of a markdown text: a section starts at every heading line
RECURSIVE SectionsFrom(_, _)
SectionsFrom(lines, cur) ==
    IF lines = <<>> THEN <<cur>>
    ELSE IF HeadingLevel(Head(lines)) > 0
         THEN <<cur>> \o SectionsFrom(Tail(lines), Head(lines))
         ELSE SectionsFrom(Tail(lines),
                           IF cur = "" THEN Head(lines) ELSE cur \o "\n" \o Head(lines))

SplitMarkdownBySections(text) == NonEmpty(SectionsFrom(Split(text, "\n"), ""))

\* titles of the ancestors: the headings on the stack with a level below lvl
RECURSIVE Ancestors(_, _)
Ancestors(stack, lvl) ==
    IF stack = <<>> THEN <<>>
    ELSE IF Head(stack).level < lvl
         THEN <<Head(stack)>> \o Ancestors(Tail(stack), lvl)
         ELSE <<>>

RECURSIVE JoinTitles(_)
JoinTitles(stack) ==
    IF stack = <<>> THEN ""
    ELSE IF Len(stack) = 1 THEN stack[1].title
    ELSE stack[1].title \o " > " \o JoinTitles(Tail(stack))

\* one rendered chunk per heading section, with its title and ancestor chain
RECURSIVE HierarchyFrom(_, _)
HierarchyFrom(sections, stack) ==
    IF sections = <<>> THEN <<>>
    ELSE LET lines == Split(Head(sections), "\n")
             lvl   == HeadingLevel(lines[1])
             title == TrimSpace(SubSeq(lines[1], lvl + 1, Len(lines[1])))
             body  == IF lvl = 0 THEN Head(sections)
                      ELSE TrimSpace(SubSeq(Head(sections), Len(lines[1]) + 1,
                                            Len(Head(sections))))
             anc   == Ancestors(stack, lvl)
         IN  IF lvl = 0
             THEN <<"TITLE: \nHIERARCHY: \nCONTENT: " \o body>>
                     \o HierarchyFrom(Tail(sections), stack)
             ELSE <<"TITLE: " \o title \o "\nHIERARCHY: " \o JoinTitles(anc)
                        \o "\nCONTENT: " \o body>>
                     \o HierarchyFrom(Tail(sections),
                                      anc \o <<[level |-> lvl, title |-> title]>>)

ChunkWithMarkdownHierarchy(text) == HierarchyFrom(SplitMarkdownBySections(text), <<>>)

\* the chunks of one file under the strategy the flags select
ChunksOf(f, content) ==
    IF ChunkStrategyOf(f) = "files" THEN <<content>>
    ELSE IF ChunkStrategyOf(f) = "fixed" THEN ChunkText(content, f.chunkSize, f.overlap)
    ELSE IF ChunkStrategyOf(f) = "delimiter"
         THEN SplitTextWithDelimiter(content, f.delimiter)
    ELSE IF ChunkStrategyOf(f) = "sections" THEN SplitMarkdownBySections(content)
    ELSE ChunkWithMarkdownHierarchy(content)

\* fmt.Sprintf("%s-chunk-%d", filepath.Base(filePath), idx+1), idx 0-based
ChunkID(filePath, idx) == Base(filePath) \o "-chunk-" \o ToString(idx + 1)

\* path of the index file the command writes
EmbeddingsPathOf(cfgFile) == Join(Dir(cfgFile), <<"embeddings.json">>)

\* path of the index file the ask command looks for
SearchEmbeddingsPath == Rel(<<".budgie", "embeddings.json">>)

-----------------------------------------------------------------------------
(* Collaborators: helpers.FindFiles, helpers.ReadTextFile, the vector store *)

RECURSIVE FilesWithExt(_, _, _)
FilesWithExt(tree, dir, ext) ==
    IF tree = <<>> THEN <<>>
    ELSE (IF Head(tree).ext = ext THEN <<Join(dir, Head(tree).rel)>> ELSE <<>>)
            \o FilesWithExt(Tail(tree), dir, ext)

\* helpers.FindFiles(docs, ext): fails when the directory is missing
FindFiles(e, docs, ext) ==
    IF Abs(e.cwd, docs) = DocsDir /\ IsDir(e, DocsDir)
    THEN [ok |-> TRUE, files |-> FilesWithExt(DocsTree, docs, ext)]
    ELSE [ok |-> FALSE, files |-> <<>>]

\* text of the document at path p
TextOf(e, p) ==
    LET a == Abs(e.cwd, p)
        i == CHOOSE i \in 1..Len(DocsTree) : Join(DocsDir, DocsTree[i].rel) = a
    IN  DocsTree[i].text

\* saving a record: a new id is appended; for an id already in the store the
\* save fails (DuplicateID) or replaces the record with that id, by the one
\* policy the store implements
StoreSave(policy, st, rec) ==
    IF \E i \in DOMAIN st : st[i].id = rec.id
    THEN IF policy = "reject"
         THEN [ok |-> FALSE, store |-> st]
         ELSE [ok |-> TRUE,
               store |-> [i \in DOMAIN st |-> IF st[i].id = rec.id THEN rec ELSE st[i]]]
    ELSE [ok |-> TRUE, store |-> Append(st, rec)]

NoReport == [printed |-> FALSE, count |-> 0]

NoConfig == [loaded |-> FALSE, EmbeddingModel |-> ""]

\* the ask command has loaded no configuration; CosineLimit is in tenths, file
\* is what the configuration file gave for "cosine-limit"
NoAskConfig ==
    [ loaded         |-> FALSE,
      EmbeddingModel |-> "",
      CosineLimit    |-> 0,
      file           |-> [given |-> FALSE, value |-> 0] ]

\* no similarity search was called
NoSearchCall == [called |-> FALSE, question |-> "", threshold |-> 0]

\* no input was read at the prompt
NoInput == [input |-> "", readOk |-> FALSE, useOk |-> FALSE, system |-> ""]

NoAskFlags ==
    [ prompt |-> FALSE, rag |-> FALSE, useFile |-> FALSE, fromFile |-> FALSE,
      question |-> "", generate |-> FALSE, vscodeMode |-> FALSE ]

\* the ask command has not run
AskIdle ==
    /\ askFlags = NoAskFlags
    /\ askConfig = NoAskConfig
    /\ askPc = "idle"
    /\ askResult = "running"
    /\ messages = <<>>
    /\ userInput = ""
    /\ ragRequested = FALSE
    /\ actualQuestion = ""
    /\ similarities = <<>>
    /\ searchOutcome = "none"
    /\ warned = FALSE
    /\ histBefore = <<>>
    /\ lastSent = <<>>
    /\ turns = 0
    /\ searchCall = NoSearchCall
    /\ storeLoads = 0
    /\ inputLog = NoInput

\* no library function is applied
NoCall ==
    [ op |-> "none", done |-> FALSE,
      text |-> "", chunkSize |-> 0, overlap |-> 0, chunks |-> <<>>,
      records |-> <<>>, query |-> <<0, 0>>, threshold |-> 0, results |-> <<>>,
      tree |-> <<>>, cwd |-> NoPath, start |-> NoPath,
      root |-> [ok |-> FALSE, path |-> NoPath] ]

FnIdle == fn = NoCall

\* the entries of the working directory that RunInit looks at or writes
BudgieDir == ".budgie"

InitDocsDir == ".budgie/docs"

InitConfigPath == ".budgie/budgie.config.json"

InitSystemPath == ".budgie/budgie.system.md"

InitReadmePath == ".budgie/docs/README.md"

InitPaths == {BudgieDir, InitDocsDir, InitConfigPath, InitSystemPath, InitReadmePath}

\* a working directory without .budgie: an entry is "none", "dir", or the
\* content of a file
EmptyFs == [p \in InitPaths |-> "none"]

\* the init command does not run
InitIdle ==
    /\ initPc = "idle"
    /\ initFs = EmptyFs
    /\ initResult = "running"
    /\ initFault = "none"
    /\ initBefore = EmptyFs

\* no key has been read
NoKey == [key |-> "none", reader |-> 0, at |-> "none", stream |-> 0]

\* no interactive session with ESC listeners is running
EscIdle ==
    /\ escPc = "idle"
    /\ escTurn = 0
    /\ listeners = <<>>
    /\ cancelled = {}
    /\ keyboardOpen = FALSE
    /\ lastKey = NoKey
    /\ streamOutcome = "none"

\* outcomes of config.LoadConfig on an existing file
ConfigOutcomes ==
    { [ok |-> FALSE, EmbeddingModel |-> ""],
      [ok |-> TRUE,  EmbeddingModel |-> ""],
      [ok |-> TRUE,  EmbeddingModel |-> "embed-model"] }

-----------------------------------------------------------------------------
(* State machine *)

Flags ==
    [ configFile        : {DefaultConfig, CustomConfig},
      docs              : {DefaultDocs},
      markdownHierarchy : BOOLEAN,
      markdownSections  : BOOLEAN,
      delimiter         : {"", "|"},
      chunkSize         : -1 .. MaxChunkSize,
      overlap           : -1 .. MaxOverlap,
      extension         : {"", "md", ".txt"},
      files             : BOOLEAN,
      vscodeMode        : BOOLEAN ]

Envs ==
    [ cwd         : {ProjectRoot, SubDir},
      hasBudgie   : BOOLEAN,
      prior       : {NoFile, OldIndex},
      onDuplicate : {"reject", "overwrite"} ]

Init ==
    /\ flags \in Flags
    /\ env \in Envs
    /\ pc = "start"
    /\ result = "running"
    /\ io = {}
    /\ configFile = flags.configFile
    /\ docsPath = flags.docs
    /\ config = NoConfig
    /\ storePath = NoPath
    /\ store = <<>>
    /\ storeReset = FALSE
    /\ fileExtension = ""
    /\ foundFiles = <<>>
    /\ fileIdx = 0
    /\ chunks = <<>>
    /\ chunkIdx = 0
    /\ chunkCount = 0
    /\ chunked = <<>>
    /\ embedLog = <<>>
    /\ embedFailures = 0
    /\ disk = InitialDisk(env)
    /\ searchPath = NoPath
    /\ readLog = <<>>
    /\ persistErr = FALSE
    /\ report = NoReport
    /\ AskIdle
    /\ FnIdle
    /\ InitIdle
    /\ EscIdle

\* return err
Return(err) == pc' = "returned" /\ result' = err

\* lines 33-51: resolve the config file and, in vscode mode, the docs path
ResolvePaths ==
    /\ pc = "start"
    /\ \E getwdOk \in BOOLEAN, getwdOk2 \in BOOLEAN :
         LET r == ResolveBudgiePaths(env, NoPath, flags.configFile,
                                     flags.vscodeMode, getwdOk)
             root == FindRootBudgieDir(env, env.cwd)
         IN  IF r.err /= ""
             THEN /\ Return(r.err)
                  /\ io' = io \cup r.io
                  /\ UNCHANGED <<configFile, docsPath>>
             ELSE IF ~flags.vscodeMode
             THEN /\ pc' = "validate"
                  /\ configFile' = r.config
                  /\ io' = io \cup r.io
                  /\ UNCHANGED <<result, docsPath>>
             ELSE IF ~getwdOk2
             THEN /\ Return("ErrGetwd")
                  /\ configFile' = r.config
                  /\ io' = io \cup r.io \cup {"getwd"}
                  /\ UNCHANGED docsPath
             ELSE IF ~root.ok
             THEN /\ Return("ErrNoBudgieDir")
                  /\ configFile' = r.config
                  /\ io' = io \cup r.io \cup {"getwd", "stat"}
                  /\ UNCHANGED docsPath
             ELSE /\ pc' = "validate"
                  /\ configFile' = r.config
                  /\ docsPath' = Join(root.path, <<".budgie", "docs">>)
                  /\ io' = io \cup r.io \cup {"getwd", "stat"}
                  /\ UNCHANGED result
    /\ UNCHANGED <<flags, env, config, storePath, store, storeReset, fileExtension,
                   foundFiles, fileIdx, chunks, chunkIdx, chunkCount, chunked,
                   embedLog, embedFailures, disk, searchPath>>
    /\ UNCHANGED genLogs
    /\ UNCHANGED askVars
    /\ UNCHANGED <<fnVars, initVars, escVars>>

\* lines 53-86: validation of the flags
Validate ==
    /\ pc = "validate"
    /\ IF ValidationError(flags) /= ""
       THEN Return(ValidationError(flags))
       ELSE pc' = "loadConfig" /\ UNCHANGED result
    /\ UNCHANGED <<flags, env, io, configFile, docsPath, config, storePath, store,
                   storeReset, fileExtension, foundFiles, fileIdx, chunks, chunkIdx,
                   chunkCount, chunked, embedLog, embedFailures, disk, searchPath>>
    /\ UNCHANGED genLogs
    /\ UNCHANGED askVars
    /\ UNCHANGED <<fnVars, initVars, escVars>>

\* lines 88-96: load the configuration file
LoadConfigStep ==
    /\ pc = "loadConfig"
    /\ io' = io \cup {"readConfig"}
    /\ IF ~ConfigExists(env, Abs(env.cwd, configFile))
       THEN Return("ErrLoadConfig") /\ UNCHANGED config
       ELSE \E c \in ConfigOutcomes :
              IF ~c.ok THEN Return("ErrLoadConfig") /\ UNCHANGED config
              ELSE /\ config' = [loaded |-> TRUE, EmbeddingModel |-> c.EmbeddingModel]
                   /\ IF c.EmbeddingModel = ""
                      THEN Return("ErrNoEmbeddingModel")
                      ELSE pc' = "createAgent" /\ UNCHANGED result
    /\ UNCHANGED <<flags, env, configFile, docsPath, storePath, store, storeReset,
                   fileExtension, foundFiles, fileIdx, chunks, chunkIdx, chunkCount,
                   chunked, embedLog, embedFailures, disk, searchPath>>
    /\ UNCHANGED genLogs
    /\ UNCHANGED askVars
    /\ UNCHANGED <<fnVars, initVars, escVars>>

\* disk d with the index file at absolute path p replaced by file
WriteIndex(d, p, file) == [q \in DOMAIN d \cup {p} |-> IF q = p THEN file ELSE d[q]]

\* lines 116-128: create the budgie-search agent with its vector store path
CreateAgent ==
    /\ pc = "createAgent"
    /\ \E ok \in BOOLEAN :
         IF ~ok
         THEN Return("ErrCreateAgent") /\ UNCHANGED <<storePath, store>>
         ELSE /\ pc' = "resetStore"
              /\ storePath' = EmbeddingsPathOf(configFile)
              \* whether the new agent starts from the persisted records is
              \* the library's choice
              /\ store' \in {<<>>, FileAt(disk, Abs(env.cwd, storePath')).records}
              /\ UNCHANGED result
    /\ UNCHANGED <<flags, env, io, configFile, docsPath, config, storeReset,
                   fileExtension, foundFiles, fileIdx, chunks, chunkIdx, chunkCount,
                   chunked, embedLog, embedFailures, disk, searchPath>>
    /\ UNCHANGED genLogs
    /\ UNCHANGED askVars
    /\ UNCHANGED <<fnVars, initVars, escVars>>

\* mutant: the reset also empties the index file on disk
ResetStore_OnDisk ==
    /\ pc = "resetStore"
    /\ store' = <<>>
    /\ storeReset' = TRUE
    /\ pc' = "findFiles"
    /\ disk' = WriteIndex(disk, Abs(env.cwd, storePath), IndexFile(<<>>))
    /\ UNCHANGED <<flags, env, result, io, configFile, docsPath, config, storePath,
                   fileExtension, foundFiles, fileIdx, chunks, chunkIdx, chunkCount,
                   chunked, embedLog, embedFailures, searchPath>>
    /\ UNCHANGED genLogs
    /\ UNCHANGED askVars
    /\ UNCHANGED <<fnVars, initVars, escVars>>

\* mutant: the reset leaves the records the agent started with
ResetStore_Skipped ==
    /\ pc = "resetStore"
    /\ storeReset' = TRUE
    /\ pc' = "findFiles"
    /\ UNCHANGED <<flags, env, result, io, configFile, docsPath, config, storePath,
                   store, fileExtension, foundFiles, fileIdx, chunks, chunkIdx,
                   chunkCount, chunked, embedLog, embedFailures, disk, searchPath>>
    /\ UNCHANGED genLogs
    /\ UNCHANGED askVars
    /\ UNCHANGED <<fnVars, initVars, escVars>>

\* lines 130-131: agent.ResetMemoryVectorStore()
ResetStore ==
    /\ pc = "resetStore"
    /\ store' = <<>>
    /\ storeReset' = TRUE
    /\ pc' = "findFiles"
    /\ UNCHANGED <<flags, env, result, io, configFile, docsPath, config, storePath,
                   fileExtension, foundFiles, fileIdx, chunks, chunkIdx, chunkCount,
                   chunked, embedLog, embedFailures, disk, searchPath>>
    /\ UNCHANGED genLogs
    /\ UNCHANGED askVars
    /\ UNCHANGED <<fnVars, initVars, escVars>>

\* position after the file loop has advanced to index i of files fs
LoopPc(fs, i) == IF i > Len(fs) THEN "persist" ELSE "nextFile"

\* a discovery error that is taken as an empty list of files
FindFilesFailed_Ignored ==
    /\ foundFiles' = <<>>
    /\ fileIdx' = 1
    /\ pc' = LoopPc(<<>>, 1)
    /\ UNCHANGED result

\* lines 143-146: an error of helpers.FindFiles is returned
FindFilesFailed ==
    /\ Return("ErrFindFiles")
    /\ UNCHANGED <<foundFiles, fileIdx>>

\* lines 133-150: choose the extension and discover the files
DiscoverFiles ==
    /\ pc = "findFiles"
    /\ fileExtension' = FileExtensionOf(flags)
    /\ io' = io \cup {"findFiles"}
    /\ LET found == FindFiles(env, docsPath, fileExtension') IN
         IF ~found.ok
         THEN FindFilesFailed
         ELSE /\ foundFiles' = found.files
              /\ fileIdx' = 1
              /\ pc' = LoopPc(found.files, 1)
              /\ UNCHANGED result
    /\ UNCHANGED <<flags, env, configFile, docsPath, config, storePath, store,
                   storeReset, chunks, chunkIdx, chunkCount, chunked, embedLog,
                   embedFailures, disk, searchPath>>
    /\ UNCHANGED genLogs
    /\ UNCHANGED askVars
    /\ UNCHANGED <<fnVars, initVars, escVars>>

\* a read failure that ends the file loop
ReadFailed_Break ==
    /\ pc' = "persist"
    /\ UNCHANGED <<fileIdx, chunks, chunkIdx, chunked>>

\* lines 155-159: a read failure is printed and the loop continues with the
\* next file
ReadFailed ==
    /\ fileIdx' = fileIdx + 1
    /\ pc' = LoopPc(foundFiles, fileIdx + 1)
    /\ UNCHANGED <<chunks, chunkIdx, chunked>>

\* lines 151-177: read the next file and chunk it
ProcessFile ==
    /\ pc = "nextFile"
    /\ io' = io \cup {"readFile"}
    /\ \E readOk \in BOOLEAN :
         /\ readLog' = Append(readLog, [file |-> foundFiles[fileIdx], ok |-> readOk])
         /\ IF ~readOk
            THEN ReadFailed
            ELSE LET content == TextOf(env, foundFiles[fileIdx])
                  cs == ChunksOf(flags, content)
              IN  /\ chunks' = cs
                  /\ chunkIdx' = 0
                  /\ chunked' = Append(chunked,
                                   [file      |-> foundFiles[fileIdx],
                                    content   |-> content,
                                    strategy  |-> ChunkStrategyOf(flags),
                                    chunkSize |-> flags.chunkSize,
                                    overlap   |-> flags.overlap,
                                    chunks    |-> cs,
                                    n         |-> Len(cs)])
                  /\ IF cs = <<>>
                     THEN /\ fileIdx' = fileIdx + 1
                          /\ pc' = LoopPc(foundFiles, fileIdx + 1)
                     ELSE /\ pc' = "embed"
                          /\ UNCHANGED fileIdx
    /\ UNCHANGED <<flags, env, result, configFile, docsPath, config, storePath,
                   store, storeReset, fileExtension, foundFiles, chunkCount,
                   embedLog, embedFailures, disk, searchPath, persistErr, report>>
    /\ UNCHANGED askVars
    /\ UNCHANGED <<fnVars, initVars, escVars>>

\* a failed chunk that ends the chunk loop of its file
NextChunkIdx_Break(ok, idx, n) == IF ok THEN idx + 1 ELSE n

\* lines 180-192: after a chunk, failed (continue) or saved, the loop goes on
\* with the next chunk of the file
NextChunkIdx(ok, idx, n) == idx + 1

\* lines 180-192: embed the next chunk of the current file and save the record
EmbedChunk ==
    /\ pc = "embed"
    /\ io' = io \cup {"embed"}
    /\ LET chunk   == chunks[chunkIdx + 1]
           chunkID == ChunkID(foundFiles[fileIdx], chunkIdx)
       IN  \E embedded \in BOOLEAN :
             LET save == StoreSave(env.onDuplicate, store,
                                   [id |-> chunkID, content |-> chunk])
                 ok   == embedded /\ save.ok
             IN
             /\ ~embedded => embedFailures < MaxEmbedFailures
             /\ embedLog' = Append(embedLog, [id |-> chunkID, text |-> chunk, ok |-> ok])
             /\ embedFailures' = IF embedded THEN embedFailures ELSE embedFailures + 1
             /\ IF ok
                THEN /\ store' = save.store
                     /\ chunkCount' = chunkCount + 1
                ELSE UNCHANGED <<store, chunkCount>>
             /\ chunkIdx' = NextChunkIdx(ok, chunkIdx, Len(chunks))
    /\ IF chunkIdx' = Len(chunks)
       THEN /\ fileIdx' = fileIdx + 1
            /\ pc' = LoopPc(foundFiles, fileIdx + 1)
       ELSE UNCHANGED <<fileIdx, pc>>
    /\ UNCHANGED <<flags, env, result, configFile, docsPath, config, storePath,
                   storeReset, fileExtension, foundFiles, chunks, chunked, disk,
                   searchPath>>
    /\ UNCHANGED genLogs
    /\ UNCHANGED askVars
    /\ UNCHANGED <<fnVars, initVars, escVars>>

\* a persist error after which the run reports success
PersistFailed_Ignored ==
    /\ report' = [printed |-> TRUE, count |-> chunkCount]
    /\ Return("ok")

\* lines 197-199: an error of PersistMemoryVectorStore is returned
PersistFailed ==
    /\ UNCHANGED report
    /\ Return("ErrPersist")

\* lines 195-203: agent.PersistMemoryVectorStore()
Persist ==
    /\ pc = "persist"
    /\ io' = io \cup {"persist"}
    /\ \E ok \in BOOLEAN :
         /\ persistErr' = ~ok
         /\ IF ok
            THEN /\ disk' = WriteIndex(disk, Abs(env.cwd, storePath), IndexFile(store))
                 /\ report' = [printed |-> TRUE, count |-> chunkCount]
                 /\ Return("ok")
            ELSE \* a failed write leaves the file as it was or truncated
                 /\ disk' \in {disk, WriteIndex(disk, Abs(env.cwd, storePath),
                                                 IndexFile(<<>>))}
                 /\ PersistFailed
    /\ UNCHANGED <<flags, env, configFile, docsPath, config, storePath, store,
                   storeReset, fileExtension, foundFiles, fileIdx, chunks, chunkIdx,
                   chunkCount, chunked, embedLog, embedFailures, searchPath, readLog>>
    /\ UNCHANGED askVars
    /\ UNCHANGED <<fnVars, initVars, escVars>>

\* the process is killed before it returns
Crash ==
    /\ pc \notin {"returned", "crashed"}
    /\ pc' = "crashed"
    /\ UNCHANGED <<flags, env, result, io, configFile, docsPath, config, storePath,
                   store, storeReset, fileExtension, foundFiles, fileIdx, chunks,
                   chunkIdx, chunkCount, chunked, embedLog, embedFailures, disk,
                   searchPath>>
    /\ UNCHANGED genLogs
    /\ UNCHANGED askVars
    /\ UNCHANGED <<fnVars, initVars, escVars>>

\* rag.CreateSearchAgent of a later ask run in the same working directory:
\* the index file it stats and loads
CreateSearchAgent ==
    /\ pc = "returned"
    /\ searchPath = NoPath
    /\ searchPath' = Abs(env.cwd, SearchEmbeddingsPath)
    /\ UNCHANGED <<flags, env>>
    /\ UNCHANGED genVars
    /\ UNCHANGED askVars
    /\ UNCHANGED <<fnVars, initVars, escVars>>

Next ==
    \/ ResolvePaths
    \/ Validate
    \/ LoadConfigStep
    \/ CreateAgent
    \/ ResetStore
    \/ DiscoverFiles
    \/ ProcessFile
    \/ EmbedChunk
    \/ Persist
    \/ Crash
    \/ CreateSearchAgent

Spec == Init /\ [][Next]_vars

-----------------------------------------------------------------------------
(* The ask command: pkg/rag/search.go, processQuestion, RunAsk *)

SystemMessage(c) == [role |-> "system", content |-> c]

UserMessage(c) == [role |-> "user", content |-> c]

AssistantMessage(c) == [role |-> "assistant", content |-> c]

\* strings.Join
RECURSIVE StringsJoin(_, _)
StringsJoin(elems, sep) ==
    IF elems = <<>> THEN ""
    ELSE IF Len(elems) = 1 THEN elems[1]
    ELSE elems[1] \o sep \o StringsJoin(Tail(elems), sep)

RagPrefix == "#rag "

ContextLabel == "Relevant context from documentation:\n\n"

ContextSeparator == "\n\n"

\* contents of the files the ask command reads
SystemText == "sys"

UseText == "use"

ExtraText == "extra"

\* the result sequences a similarity search can return
SearchResults == {<<>>, <<"r1">>, <<"r2", "r1">>}

\* what the library calls of one search do: the agent cannot be created, the
\* store cannot be loaded, the search fails, or it returns results
SearchChoices ==
    { [agentOk |-> FALSE, loadOk |-> TRUE,  searchOk |-> TRUE,  results |-> <<>>],
      [agentOk |-> TRUE,  loadOk |-> FALSE, searchOk |-> TRUE,  results |-> <<>>] }
    \cup [agentOk : {TRUE}, loadOk : {TRUE}, searchOk : BOOLEAN, results : SearchResults]

\* the index file rag.CreateSearchAgent stats exists
SearchIndexExists(e, d) == FileAt(d, Abs(e.cwd, SearchEmbeddingsPath)).exists

\* mutant: the embedding model is checked before the index file
CreateSearchAgentResult_ModelFirst(exists, model, c) ==
    IF model = "" THEN "errModel"
    ELSE IF ~exists THEN "noIndex"
    ELSE IF ~c.agentOk THEN "errAgent"
    ELSE IF ~c.loadOk THEN "errLoad"
    ELSE "agent"

\* rag.CreateSearchAgent: "noIndex" is (nil, nil), "agent" an agent with the
\* store loaded, the others an error
CreateSearchAgentResult(exists, model, c) ==
    IF ~exists THEN "noIndex"
    ELSE IF model = "" THEN "errModel"
    ELSE IF ~c.agentOk THEN "errAgent"
    ELSE IF ~c.loadOk THEN "errLoad"
    ELSE "agent"

\* mutant: a failed search hands back the results found so far
SearchSimilarities_KeepOnError(agent, c) ==
    IF agent /= "agent" THEN [err |-> FALSE, similarities |-> <<>>]
    ELSE [err |-> ~c.searchOk, similarities |-> IF c.results = <<>> THEN <<"r1">> ELSE c.results]

\* rag.SearchSimilarities
SearchSimilarities(agent, c) ==
    IF agent /= "agent" THEN [err |-> FALSE, similarities |-> <<>>]
    ELSE IF ~c.searchOk THEN [err |-> TRUE, similarities |-> <<>>]
    ELSE [err |-> FALSE, similarities |-> c.results]

SearchErrors == {"errModel", "errAgent", "errLoad", "errSearch"}

\* a request made by the flag alone
RagRequested_FlagOnly(input, ragEnabled) == ragEnabled

\* ragRequested := ragEnabled || strings.HasPrefix(question, "#rag ")
RagRequested(input, ragEnabled) == ragEnabled \/ HasPrefix(input, RagPrefix)

\* the question with its prefix left in place
ActualQuestion_Untrimmed(input, requested) == input

\* actualQuestion: the prefix is removed inside the RAG block, when present
\* (lines 238-247, 399-408, 588-597)
ActualQuestion(input, requested) ==
    IF requested /\ HasPrefix(input, RagPrefix)
    THEN TrimPrefix(input, RagPrefix)
    ELSE input

\* rag.CreateSearchAgent got as far as searchAgent.LoadMemoryVectorStore()
LoadsStore(agent) == agent \in {"errLoad", "agent"}

\* the RAG block of a question: lines 237-265, 398-426, 587-614
RagSearch(input, ragEnabled, exists, cfg, c) ==
    LET requested == RagRequested(input, ragEnabled)
        model     == cfg.EmbeddingModel
        actual    == ActualQuestion(input, requested)
        agent     == CreateSearchAgentResult(exists, model, c)
        found     == SearchSimilarities(agent, c)
        outcome   == IF ~requested THEN "none"
                     ELSE IF agent /= "agent" THEN agent
                     ELSE IF found.err THEN "errSearch"
                     ELSE "searched"
    IN  [ ragRequested   |-> requested,
          actualQuestion |-> actual,
          outcome        |-> outcome,
          warned         |-> outcome \in SearchErrors,
          loads          |-> IF requested /\ LoadsStore(agent) THEN 1 ELSE 0,
          searchCall     |-> IF requested /\ agent = "agent"
                             THEN [called |-> TRUE, question |-> actual,
                                   threshold |-> cfg.CosineLimit]
                             ELSE NoSearchCall,
          similarities   |-> IF outcome = "searched" \/ outcome = "errSearch"
                             THEN found.similarities ELSE <<>> ]

\* mutant: a context message whatever the results
HasContext_Always(sims) == TRUE

\* len(similarities) > 0
HasContext(sims) == Len(sims) > 0

\* mutant: the results joined without the separator
ContextMessage_NoSeparator(sims) == ContextLabel \o StringsJoin(sims, "")

\* "Relevant context from documentation:\n\n" + strings.Join(similarities, "\n\n")
ContextMessage(sims) == ContextLabel \o StringsJoin(sims, ContextSeparator)

\* texts a question can have: as the --question flag, in the --from file
Questions == {"", "q", "#rag q", "#rag "}

\* lines entered at the interactive prompt
Inputs ==
    {"/bye", "/clear", "/use ", "/use f", "/from ", "/from f"} \cup Questions

\* the flags of an invocation; a flag the chosen mode never reads (--question
\* with --prompt or --from, --generate with --prompt) is left at its default
AskFlags ==
    { f \in [ prompt     : BOOLEAN,
              rag        : BOOLEAN,
              useFile    : BOOLEAN,
              fromFile   : BOOLEAN,
              question   : {"", "q", "#rag q", "#rag #rag q"},
              generate   : BOOLEAN,
              vscodeMode : BOOLEAN ] :
        /\ (f.prompt \/ f.fromFile) => f.question = ""
        /\ f.prompt => ~f.generate }

\* generate-embeddings does not run
GenIdle ==
    /\ flags \in {f \in Flags : f.configFile = DefaultConfig /\ f.chunkSize = 0
                                 /\ f.overlap = 0 /\ f.delimiter = ""
                                 /\ f.extension = "" /\ ~f.markdownHierarchy
                                 /\ ~f.markdownSections /\ ~f.files /\ ~f.vscodeMode}
    /\ pc = "idle"
    /\ result = "running"
    /\ io = {}
    /\ configFile = flags.configFile
    /\ docsPath = flags.docs
    /\ config = NoConfig
    /\ storePath = NoPath
    /\ store = <<>>
    /\ storeReset = FALSE
    /\ fileExtension = ""
    /\ foundFiles = <<>>
    /\ fileIdx = 0
    /\ chunks = <<>>
    /\ chunkIdx = 0
    /\ chunkCount = 0
    /\ chunked = <<>>
    /\ embedLog = <<>>
    /\ embedFailures = 0
    /\ disk = InitialDisk(env)
    /\ searchPath = NoPath
    /\ readLog = <<>>
    /\ persistErr = FALSE
    /\ report = NoReport

\* the project the ask command runs in; generate-embeddings does not run
InitAsk ==
    /\ env \in {e \in Envs : e.onDuplicate = "reject"}
    /\ GenIdle
    /\ FnIdle
    /\ InitIdle
    /\ EscIdle
    /\ askFlags \in AskFlags
    /\ askConfig = NoAskConfig
    /\ askPc = "start"
    /\ askResult = "running"
    /\ messages = <<>>
    /\ userInput = ""
    /\ ragRequested = FALSE
    /\ actualQuestion = ""
    /\ similarities = <<>>
    /\ searchOutcome = "none"
    /\ warned = FALSE
    /\ histBefore = <<>>
    /\ lastSent = <<>>
    /\ turns = 0
    /\ searchCall = NoSearchCall
    /\ storeLoads = 0
    /\ inputLog = NoInput

AskReturn(err) == askPc' = "returned" /\ askResult' = err

\* the variables of the question being handled
questionVars == <<userInput, ragRequested, actualQuestion, similarities,
                  searchOutcome, warned, histBefore, lastSent, searchCall>>

\* the configuration file after utils.ResolveBudgiePaths succeeded
AskConfigFile ==
    ResolveBudgiePaths(env, NoPath, DefaultConfig, askFlags.vscodeMode, TRUE).config

\* lines 341-361: read the flags, resolve the paths, choose the mode
AskResolvePaths ==
    /\ askPc = "start"
    /\ \E getwdOk \in BOOLEAN :
         LET r == ResolveBudgiePaths(env, NoPath, DefaultConfig,
                                     askFlags.vscodeMode, getwdOk)
         IN  IF r.err /= ""
             THEN AskReturn(r.err)
             ELSE /\ askPc' = IF askFlags.prompt THEN "sessionInit" ELSE "single"
                  /\ UNCHANGED askResult
    /\ UNCHANGED <<askFlags, askConfig, messages, turns>>
    /\ UNCHANGED questionVars
    /\ UNCHANGED <<flags, env, searchPath>>
    /\ UNCHANGED genVars
    /\ UNCHANGED <<fnVars, initVars, escVars>>
    /\ UNCHANGED askLogs

\* lines 685-698: single-question mode, the question of --from or --question
AskSingle ==
    /\ askPc = "single"
    /\ \E readOk \in BOOLEAN, content \in Questions :
         LET question == IF askFlags.fromFile THEN content ELSE askFlags.question IN
         IF askFlags.fromFile /\ ~readOk
         THEN AskReturn("ErrReadFrom") /\ UNCHANGED userInput
         ELSE IF question = ""
         THEN AskReturn("ErrQuestionRequired") /\ UNCHANGED userInput
         ELSE /\ userInput' = question
              /\ askPc' = "pqLoad"
              /\ UNCHANGED askResult
    /\ UNCHANGED <<askFlags, askConfig, messages, turns, ragRequested,
                   actualQuestion, similarities, searchOutcome, warned, histBefore,
                   lastSent, searchCall>>
    /\ UNCHANGED <<flags, env, searchPath>>
    /\ UNCHANGED genVars
    /\ UNCHANGED <<fnVars, initVars, escVars>>
    /\ UNCHANGED askLogs

\* the default similarity threshold, 0.7, in tenths
DefaultCosineLimit == 7

\* what a configuration file that can be read and parsed gives for
\* "embedding-model" and "cosine-limit" (in tenths; given is FALSE when the
\* key is absent)
ConfigFiles ==
    { [ok |-> TRUE, EmbeddingModel |-> "", cosineLimit |-> [given |-> FALSE, value |-> 0]],
      [ok |-> TRUE, EmbeddingModel |-> "embed-model",
       cosineLimit |-> [given |-> FALSE, value |-> 0]],
      [ok |-> TRUE, EmbeddingModel |-> "embed-model",
       cosineLimit |-> [given |-> TRUE, value |-> 0]],
      [ok |-> TRUE, EmbeddingModel |-> "embed-model",
       cosineLimit |-> [given |-> TRUE, value |-> 5]] }

\* the configuration files of the ask command, one of them unreadable
AskConfigOutcomes ==
    ConfigFiles \cup { [ok |-> FALSE, EmbeddingModel |-> "",
                        cosineLimit |-> [given |-> FALSE, value |-> 0]] }

\* json.Unmarshal of a float64 field: an absent key leaves the zero value
UnmarshalFloat(field) == IF field.given THEN field.value ELSE 0

\* a default that is kept whatever the file gives
LoadConfig_AlwaysDefault(c) ==
    [ loaded         |-> TRUE,
      EmbeddingModel |-> c.EmbeddingModel,
      CosineLimit    |-> DefaultCosineLimit,
      file           |-> c.cosineLimit ]

\* config.LoadConfig on a file that was read and parsed (part_001:24-35)
LoadConfig(c) ==
    [ loaded         |-> TRUE,
      EmbeddingModel |-> c.EmbeddingModel,
      CosineLimit    |-> IF UnmarshalFloat(c.cosineLimit) = 0
                         THEN DefaultCosineLimit
                         ELSE UnmarshalFloat(c.cosineLimit),
      file           |-> c.cosineLimit ]

\* config.LoadConfig and the read of the system instructions file: lines
\* 227-235 and 366-374; err is "" on success
LoadSession(cfgExists, c, systemOk) ==
    IF ~cfgExists \/ ~c.ok THEN [err |-> "ErrLoadConfig", config |-> NoAskConfig]
    ELSE IF ~systemOk THEN [err |-> "ErrReadSystem", config |-> NoAskConfig]
    ELSE [err |-> "", config |-> LoadConfig(c)]

\* lines 227-235: processQuestion loads the configuration and the system file
PQLoad ==
    /\ askPc = "pqLoad"
    /\ \E c \in AskConfigOutcomes, systemOk \in BOOLEAN :
         LET r == LoadSession(ConfigExists(env, Abs(env.cwd, AskConfigFile)), c, systemOk)
         IN  IF r.err /= ""
             THEN AskReturn(r.err) /\ UNCHANGED askConfig
             ELSE /\ askConfig' = r.config
                  /\ askPc' = "pqSearch"
                  /\ UNCHANGED askResult
    /\ UNCHANGED <<askFlags, messages, turns>>
    /\ UNCHANGED questionVars
    /\ UNCHANGED <<flags, env, searchPath>>
    /\ UNCHANGED genVars
    /\ UNCHANGED <<fnVars, initVars, escVars>>
    /\ UNCHANGED askLogs

\* the RAG block applied to the current input: sets the search variables
DoSearch(c) ==
    LET r == RagSearch(userInput, askFlags.rag, SearchIndexExists(env, disk),
                       askConfig, c)
    IN  /\ searchCall' = r.searchCall
        /\ storeLoads' = storeLoads + r.loads
        /\ UNCHANGED inputLog
        /\ ragRequested' = r.ragRequested
        /\ actualQuestion' = r.actualQuestion
        /\ searchOutcome' = r.outcome
        /\ warned' = r.warned
        /\ similarities' = r.similarities

\* lines 237-265: processQuestion searches when RAG is requested
PQSearch ==
    /\ askPc = "pqSearch"
    /\ \E c \in SearchChoices : DoSearch(c)
    /\ askPc' = "pqBuild"
    /\ UNCHANGED <<askFlags, askConfig, askResult, messages, userInput, histBefore,
                   lastSent, turns>>
    /\ UNCHANGED <<flags, env, searchPath>>
    /\ UNCHANGED genVars
    /\ UNCHANGED <<fnVars, initVars, escVars>>

\* the system messages a conversation starts with: lines 268-279, 377-388
BaseMessages(withUse) ==
    <<SystemMessage(SystemText)>>
        \o (IF withUse THEN <<SystemMessage(UseText)>> ELSE <<>>)

\* lines 281-288: processQuestion adds the context as a user message, then the
\* question
QuestionMessages(base, sims, question) ==
    base \o (IF HasContext(sims) THEN <<UserMessage(ContextMessage(sims))>> ELSE <<>>)
         \o <<UserMessage(question)>>

\* lines 427-431, 616-620: interactive mode adds the context to the history as
\* a system message, inside the RAG block
AddContext(history, requested, sims) ==
    IF requested /\ HasContext(sims)
    THEN Append(history, SystemMessage(ContextMessage(sims)))
    ELSE history

\* lines 267-288: processQuestion builds the messages
PQBuild ==
    /\ askPc = "pqBuild"
    /\ \E useOk \in BOOLEAN :
         IF askFlags.useFile /\ ~useOk
         THEN AskReturn("ErrReadUse") /\ UNCHANGED <<messages, histBefore>>
         ELSE /\ histBefore' = BaseMessages(askFlags.useFile)
              /\ messages' = QuestionMessages(BaseMessages(askFlags.useFile),
                                              similarities, actualQuestion)
              /\ askPc' = "pqComplete"
              /\ UNCHANGED askResult
    /\ UNCHANGED <<askFlags, askConfig, userInput, ragRequested, actualQuestion,
                   similarities, searchOutcome, warned, lastSent, turns, searchCall>>
    /\ UNCHANGED <<flags, env, searchPath>>
    /\ UNCHANGED genVars
    /\ UNCHANGED <<fnVars, initVars, escVars>>
    /\ UNCHANGED askLogs

\* what the chat agent and the write of the result file do
CompletionOutcomes == {"errAgent", "errStream", "errSave", "ok"}

\* in interactive mode a failed write of the result file is only printed
TurnOutcomes == {"errAgent", "errStream", "ok"}

\* lines 290-338: processQuestion creates the agent and streams the completion
PQComplete ==
    /\ askPc = "pqComplete"
    /\ \E o \in CompletionOutcomes :
         /\ o = "errSave" => askFlags.generate
         /\ IF o = "errAgent"
            THEN AskReturn("ErrCreateAgent") /\ UNCHANGED lastSent
            ELSE /\ lastSent' = messages
                 /\ AskReturn(CASE o = "errStream" -> "ErrStreaming"
                                [] o = "errSave"   -> "ErrSaveResult"
                                [] OTHER           -> "ok")
    /\ UNCHANGED <<askFlags, askConfig, messages, userInput, ragRequested,
                   actualQuestion, similarities, searchOutcome, warned, histBefore,
                   turns, searchCall>>
    /\ UNCHANGED <<flags, env, searchPath>>
    /\ UNCHANGED genVars
    /\ UNCHANGED <<fnVars, initVars, escVars>>
    /\ UNCHANGED askLogs

\* lines 361-388: interactive mode loads the session and starts the history
SessionInit ==
    /\ askPc = "sessionInit"
    /\ \E c \in AskConfigOutcomes, systemOk \in BOOLEAN, useOk \in BOOLEAN :
         LET r == LoadSession(ConfigExists(env, Abs(env.cwd, AskConfigFile)), c, systemOk)
         IN  IF r.err /= ""
             THEN AskReturn(r.err) /\ UNCHANGED <<askConfig, messages>>
             ELSE IF askFlags.useFile /\ ~useOk
             THEN AskReturn("ErrReadUse") /\ askConfig' = r.config /\ UNCHANGED messages
             ELSE /\ askConfig' = r.config
                  /\ messages' = BaseMessages(askFlags.useFile)
                  /\ askPc' = IF askFlags.fromFile THEN "fromRead" ELSE "prompt"
                  /\ UNCHANGED askResult
    /\ UNCHANGED <<askFlags, turns>>
    /\ UNCHANGED questionVars
    /\ UNCHANGED <<flags, env, searchPath>>
    /\ UNCHANGED genVars
    /\ UNCHANGED <<fnVars, initVars, escVars>>
    /\ UNCHANGED askLogs

\* a new question starts: the input, the history before it, nothing searched
\* or sent yet
StartQuestion(input) ==
    /\ userInput' = input
    /\ histBefore' = messages
    /\ ragRequested' = FALSE
    /\ actualQuestion' = input
    /\ similarities' = <<>>
    /\ searchOutcome' = "none"
    /\ warned' = FALSE
    /\ lastSent' = <<>>
    /\ searchCall' = NoSearchCall

\* lines 391-399: --from with --prompt, the file is the first question of the
\* session and counts as its first input
FromRead ==
    /\ askPc = "fromRead"
    /\ turns' = turns + 1
    /\ \E readOk \in BOOLEAN, content \in Questions :
         IF ~readOk
         THEN AskReturn("ErrReadFrom") /\ UNCHANGED questionVars
         ELSE /\ StartQuestion(content)
              /\ askPc' = "fromSearch"
              /\ UNCHANGED askResult
    /\ UNCHANGED <<askFlags, askConfig, messages>>
    /\ UNCHANGED <<flags, env, searchPath>>
    /\ UNCHANGED genVars
    /\ UNCHANGED <<fnVars, initVars, escVars>>
    /\ UNCHANGED askLogs

\* the RAG block of interactive mode: the search, then the context message
\* appended to the history: lines 401-432, 590-621
SearchAndAddContext ==
    /\ \E c \in SearchChoices : DoSearch(c)
    /\ messages' = AddContext(messages, ragRequested', similarities')
    /\ UNCHANGED <<askFlags, askConfig, askResult, userInput, histBefore, lastSent, turns>>
    /\ UNCHANGED <<flags, env, searchPath>>
    /\ UNCHANGED genVars
    /\ UNCHANGED <<fnVars, initVars, escVars>>

\* lines 401-432
FromSearch ==
    /\ askPc = "fromSearch"
    /\ askPc' = "fromComplete"
    /\ SearchAndAddContext

AnswerText == "answer"

\* the history with the user message of the current question: lines 435, 624
WithUserMessage == Append(messages, UserMessage(actualQuestion))

\* lines 434-490: the completion of the --from question; an error ends the
\* session
FromComplete ==
    /\ askPc = "fromComplete"
    /\ \E o \in TurnOutcomes :
         IF o = "errAgent"
         THEN /\ messages' = WithUserMessage
              /\ AskReturn("ErrCreateAgent")
              /\ UNCHANGED lastSent
         ELSE /\ lastSent' = WithUserMessage
              /\ IF o = "errStream"
                 THEN /\ messages' = WithUserMessage
                      /\ AskReturn("ErrStreaming")
                 ELSE /\ messages' = Append(WithUserMessage, AssistantMessage(AnswerText))
                      /\ askPc' = "prompt"
                      /\ UNCHANGED askResult
    /\ UNCHANGED <<askFlags, askConfig, userInput, ragRequested, actualQuestion,
                   similarities, searchOutcome, warned, histBefore, turns,
                   searchCall>>
    /\ UNCHANGED <<flags, env, searchPath>>
    /\ UNCHANGED genVars
    /\ UNCHANGED <<fnVars, initVars, escVars>>
    /\ UNCHANGED askLogs

\* the system instructions file can change during a session
SystemTexts == {SystemText, "sys2"}

\* a reset that keeps the conversation after a new system message
ClearHistory_KeepOld(history, readOk, system, useGiven, useOk) ==
    IF ~readOk THEN history
    ELSE <<SystemMessage(system)>> \o SubSeq(history, 2, Len(history))

\* /clear: lines 508-534; an unreadable system file leaves the history alone,
\* an unreadable --use file is only left out
ClearHistory(history, readOk, system, useGiven, useOk) ==
    IF ~readOk THEN history
    ELSE <<SystemMessage(system)>>
            \o (IF useGiven /\ useOk THEN <<SystemMessage(UseText)>> ELSE <<>>)

\* a file loaded in front of the conversation
UseFile_Prepend(history, path, readOk, content) ==
    IF path = "" \/ ~readOk THEN history
    ELSE <<SystemMessage(content)>> \o history

\* /use <path>: lines 536-557
UseFile(history, path, readOk, content) ==
    IF path = "" \/ ~readOk THEN history
    ELSE Append(history, SystemMessage(content))

\* an input of the loop that asks nothing: the variables of a question are
\* those of a new iteration (lines 587-588 are not reached)
NoQuestion == StartQuestion("")

\* lines 492-585: one input at the prompt: /bye, /clear, /use, /from, an empty
\* line or a question
ReadInput ==
    /\ askPc = "prompt"
    /\ \E input \in Inputs \cup {"<error>"} :
         LET usePath  == TrimSpace(TrimPrefix(input, "/use "))
             fromPath == TrimSpace(TrimPrefix(input, "/from "))
             plain    == [input |-> input, readOk |-> FALSE, useOk |-> FALSE,
                          system |-> ""]
         IN
         /\ (turns < MaxTurns \/ input = "/bye")
         /\ turns' = turns + 1
         /\ IF input = "<error>"
            THEN /\ AskReturn("ErrInput")
                 /\ inputLog' = plain
                 /\ UNCHANGED messages
                 /\ UNCHANGED questionVars
            ELSE IF input = "/bye"
            THEN /\ AskReturn("ok")
                 /\ inputLog' = plain
                 /\ UNCHANGED messages
                 /\ UNCHANGED questionVars
            ELSE IF input = "/clear"
            THEN /\ \E r \in { [input |-> input, readOk |-> FALSE, useOk |-> FALSE,
                                system |-> ""] }
                             \cup [ input  : {input},
                                    readOk : {TRUE},
                                    useOk  : IF askFlags.useFile THEN BOOLEAN
                                             ELSE {FALSE},
                                    system : SystemTexts ] :
                      /\ inputLog' = r
                      /\ messages' = ClearHistory(messages, r.readOk, r.system,
                                                  askFlags.useFile, r.useOk)
                 /\ NoQuestion
                 /\ UNCHANGED <<askPc, askResult>>
            ELSE IF HasPrefix(input, "/use ")
            THEN /\ \E readOk \in {usePath /= "", FALSE} :
                      /\ inputLog' = [plain EXCEPT !.readOk = readOk]
                      /\ messages' = UseFile(messages, usePath, readOk, ExtraText)
                 /\ NoQuestion
                 /\ UNCHANGED <<askPc, askResult>>
            ELSE \E content \in (IF HasPrefix(input, "/from ")
                                 THEN (IF fromPath = "" THEN {} ELSE Questions)
                                          \cup {"<unread>"}
                                 ELSE {input}) :
                 /\ inputLog' = [plain EXCEPT !.input = IF content = "<unread>"
                                                        THEN input ELSE content]
                 /\ IF content = "<unread>" \/ content = ""
                    THEN /\ UNCHANGED <<messages, askPc, askResult>>
                         /\ NoQuestion
                    ELSE /\ StartQuestion(content)
                         /\ askPc' = "turnSearch"
                         /\ UNCHANGED <<messages, askResult>>
    /\ UNCHANGED <<askFlags, askConfig, storeLoads>>
    /\ UNCHANGED <<flags, env, searchPath>>
    /\ UNCHANGED genVars
    /\ UNCHANGED <<fnVars, initVars, escVars>>

\* lines 587-621
TurnSearch ==
    /\ askPc = "turnSearch"
    /\ askPc' = "turnComplete"
    /\ SearchAndAddContext

\* lines 623-681: the completion of a turn; an error is printed and the loop
\* goes on
TurnComplete ==
    /\ askPc = "turnComplete"
    /\ askPc' = "prompt"
    /\ \E o \in TurnOutcomes :
         IF o = "errAgent"
         THEN /\ messages' = WithUserMessage
              /\ UNCHANGED lastSent
         ELSE /\ lastSent' = WithUserMessage
              /\ messages' = IF o = "errStream" THEN WithUserMessage
                             ELSE Append(WithUserMessage, AssistantMessage(AnswerText))
    /\ UNCHANGED <<askFlags, askConfig, askResult, userInput, ragRequested,
                   actualQuestion, similarities, searchOutcome, warned, histBefore,
                   turns, searchCall>>
    /\ UNCHANGED <<flags, env, searchPath>>
    /\ UNCHANGED genVars
    /\ UNCHANGED <<fnVars, initVars, escVars>>
    /\ UNCHANGED askLogs

NextAsk ==
    \/ AskResolvePaths
    \/ AskSingle
    \/ PQLoad
    \/ PQSearch
    \/ PQBuild
    \/ PQComplete
    \/ SessionInit
    \/ FromRead
    \/ FromSearch
    \/ FromComplete
    \/ ReadInput
    \/ TurnSearch
    \/ TurnComplete

SpecAsk == InitAsk /\ [][NextAsk]_vars

-----------------------------------------------------------------------------
(* Properties of generate-embeddings *)

\* C1: the records appended to the store in one run have pairwise different ids
C1_UniqueIds ==
    \A i, j \in DOMAIN embedLog :
        (i /= j /\ embedLog[i].ok /\ embedLog[j].ok) => embedLog[i].id /= embedLog[j].id

\* C2: the index file the ask command stats and loads is the file that
\* generate-embeddings persisted, for the same configuration
C2_SameIndexFile ==
    (result = "ok" /\ searchPath /= NoPath) => searchPath = Abs(env.cwd, storePath)

\* C3: the index on disk is written only by the final persist step, which comes
\* after all files have been processed: as long as the run has not reached it
\* (error return, crash), the index is what it was before the run
C3_IndexWrittenOnlyByPersist ==
    /\ "persist" \notin io => disk = InitialDisk(env)
    /\ "persist" \in io => (pc = "returned" /\ fileIdx = Len(foundFiles) + 1)

C3_Witness ==
    /\ pc = "crashed"
    /\ storeReset
    /\ store /= <<>>
    /\ env.prior = OldIndex
    /\ disk = InitialDisk(env)

C6_OverlapNeverIgnored ==
    \A i \in DOMAIN chunked : chunked[i].overlap > 0 => chunked[i].strategy = "fixed"

\* C7: whenever the fixed-size chunker is invoked, chunkSize > 0 and
\* 0 <= overlap < chunkSize
C7_ChunkTextParameters ==
    \A i \in DOMAIN chunked :
        chunked[i].strategy = "fixed" =>
            /\ chunked[i].chunkSize > 0
            /\ 0 <= chunked[i].overlap
            /\ chunked[i].overlap < chunked[i].chunkSize

\* the extension the documentation promises for a flag value
C8_Expected(ext) ==
    IF ext = "" THEN ".md"
    ELSE IF SubSeq(ext, 1, 1) = "." THEN ext ELSE "." \o ext

\* C8: the extension used for discovery is ".md" without --extension and the
\* given extension, dot-normalized, otherwise
C8_ExtensionUsed ==
    "findFiles" \in io => fileExtension = C8_Expected(flags.extension)

\* the strategies whose flag selects them: a true switch, a non-empty
\* delimiter, a positive chunk size
C9_Given(f) ==
    {s \in {"files", "fixed", "delimiter", "sections", "hierarchy"} :
        \/ s = "files" /\ f.files
        \/ s = "fixed" /\ f.chunkSize > 0
        \/ s = "delimiter" /\ f.delimiter /= ""
        \/ s = "sections" /\ f.markdownSections
        \/ s = "hierarchy" /\ f.markdownHierarchy}

C10_NoEmptyChunk ==
    /\ \A i \in DOMAIN chunked : chunked[i].content = "" => chunked[i].n = 0
    /\ \A i \in DOMAIN embedLog : embedLog[i].text /= ""
    /\ \A i \in DOMAIN store : store[i].content /= ""

\* the chunks the code made of the i-th file that was read
ChunksRead(i) == chunked[i].chunks

OkReads == SelectSeq(readLog, LAMBDA r : r.ok)

FileLoopDone == pc = "persist" \/ "persist" \in io

\* C11: a file that cannot be read is skipped alone: the files are read in
\* discovery order, each exactly once whatever the earlier reads gave, every
\* file that was read is chunked and each of its chunks is handed to the
\* embedding function, and the run ends with the persist step
C11_ReadFailureSkipsOneFile ==
    /\ \A i \in DOMAIN readLog : readLog[i].file = foundFiles[i]
    /\ (pc = "returned" /\ readLog /= <<>>) => "persist" \in io
    /\ FileLoopDone =>
          /\ Len(readLog) = Len(foundFiles)
          /\ Len(chunked) = Len(OkReads)
          /\ \A i \in DOMAIN chunked :
                /\ chunked[i].file = OkReads[i].file
                /\ \A j \in DOMAIN ChunksRead(i) :
                      \E k \in DOMAIN embedLog :
                          /\ embedLog[k].id = ChunkID(chunked[i].file, j - 1)
                          /\ embedLog[k].text = ChunksRead(i)[j]

\* a run that persisted after a failed read followed by a file that was read
\* and embedded
C11_Witness ==
    /\ result = "ok"
    /\ \E i, j \in DOMAIN readLog :
          /\ i < j
          /\ ~readLog[i].ok
          /\ readLog[j].ok
          /\ \E k \in DOMAIN embedLog :
                embedLog[k].ok /\ embedLog[k].id = ChunkID(readLog[j].file, 0)

\* the embedding calls the chunk loop makes for the files read from the i-th on
RECURSIVE CallsFrom(_)
CallsFrom(i) ==
    IF i > Len(chunked)
    THEN <<>>
    ELSE [j \in DOMAIN ChunksRead(i) |->
             [file |-> i,
              id   |-> ChunkID(chunked[i].file, j - 1),
              text |-> ChunksRead(i)[j]]] \o CallsFrom(i + 1)

ExpectedCalls == CallsFrom(1)

\* C12: a chunk whose embedding fails is skipped alone: the embedding function
\* is called on every chunk of every file read, in order, whatever the earlier
\* calls gave, and a record of the store comes from a call that succeeded
C12_EmbedFailureSkipsOneChunk ==
    /\ LET calls == ExpectedCalls
       IN  /\ Len(embedLog) <= Len(calls)
           /\ \A k \in DOMAIN embedLog :
                 /\ embedLog[k].id = calls[k].id
                 /\ embedLog[k].text = calls[k].text
           /\ (pc = "nextFile" \/ FileLoopDone) => Len(embedLog) = Len(calls)
    /\ storeReset =>
          \A r \in DOMAIN store :
              \E k \in DOMAIN embedLog :
                  /\ embedLog[k].ok
                  /\ embedLog[k].id = store[r].id
                  /\ embedLog[k].text = store[r].content

\* a run that persisted after a failed embedding call followed by a saved
\* chunk of the same file and a saved chunk of a later file; the failed chunk
\* has no record
C12_Witness ==
    /\ result = "ok"
    /\ embedFailures > 0
    /\ \E k, k2, k3 \in DOMAIN embedLog :
          /\ k < k2 /\ k2 < k3
          /\ ~embedLog[k].ok /\ embedLog[k2].ok /\ embedLog[k3].ok
          /\ ExpectedCalls[k].file = ExpectedCalls[k2].file
          /\ ExpectedCalls[k].file < ExpectedCalls[k3].file
          /\ \A r \in DOMAIN store : store[r].content /= embedLog[k].text

SavedCalls == {k \in DOMAIN embedLog : embedLog[k].ok}

\* C13: the count reported at the end of a successful run is the number of
\* chunks whose embedding call succeeded and the number of records in the
\* store that was persisted
C13_CountMatchesStore ==
    report.printed =>
        /\ report.count = Cardinality(SavedCalls)
        /\ report.count = Len(store)
        /\ FileAt(disk, Abs(env.cwd, storePath)) = IndexFile(store)

\* the records of the index persisted before the run
PriorRecords == IF env.prior.exists THEN env.prior.records ELSE <<>>

\* C14: the store is reset before the first embedding call, so the store
\* holds, and a successful run persists, only records saved by calls of this
\* run: no record of the index persisted before the run is left
C14_OnlyThisRunsRecords ==
    /\ embedLog /= <<>> => storeReset
    /\ (storeReset \/ result = "ok") =>
          \A r \in DOMAIN store :
              /\ \E k \in SavedCalls :
                    embedLog[k].id = store[r].id /\ embedLog[k].text = store[r].content
              /\ \A q \in DOMAIN PriorRecords : store[r] /= PriorRecords[q]
    /\ result = "ok" => FileAt(disk, Abs(env.cwd, storePath)) = IndexFile(store)

\* a successful run over a project with a previous index, loaded on agent
\* creation, that persisted records of its own where the old index was
C14_Witness ==
    /\ result = "ok"
    /\ env.prior = OldIndex
    /\ InitialDisk(env)[Abs(env.cwd, storePath)] = OldIndex
    /\ store /= <<>>
    /\ FileAt(disk, Abs(env.cwd, storePath)) = IndexFile(store)

\* C15: when persisting the store fails the command returns the error and
\* does not report success
C15_PersistFailureIsError ==
    persistErr =>
        /\ pc = "returned"
        /\ result = "ErrPersist"
        /\ ~report.printed

\* a run that embedded chunks and whose persist step failed
C15_Witness ==
    /\ persistErr
    /\ result = "ErrPersist"
    /\ SavedCalls /= {}

\* helpers.FindFiles was called and failed
DiscoveryFailed ==
    /\ "findFiles" \in io
    /\ ~FindFiles(env, docsPath, fileExtension).ok

\* C16: when file discovery fails the command returns the error at once: no
\* file is read, no embedding call is made and nothing is persisted
C16_DiscoveryFailureIsError ==
    DiscoveryFailed =>
        /\ pc = "returned"
        /\ result = "ErrFindFiles"
        /\ readLog = <<>>
        /\ embedLog = <<>>
        /\ "persist" \notin io
        /\ disk = InitialDisk(env)
        /\ ~report.printed

\* a run over a project without its docs directory, after discovery
C16_Witness ==
    /\ DiscoveryFailed
    /\ storeReset
    /\ result = "ErrFindFiles"

-----------------------------------------------------------------------------
(* Properties of the ask command *)

\* a chat completion was requested for the current question
Sent == lastSent /= <<>>

\* the messages sent for the current question when it has no context message
SentWithoutContext == histBefore \o <<UserMessage(actualQuestion)>>

\* the results a command can end with once a search was made
AfterSearchResults ==
    {"running", "ok", "ErrReadUse", "ErrCreateAgent", "ErrStreaming",
     "ErrSaveResult", "ErrInput"}

IsContext(m) == HasPrefix(m.content, ContextLabel)

\* no context message was added to the conversation for the current question
NoContextAdded ==
    \A i \in DOMAIN messages : i > Len(histBefore) => ~IsContext(messages[i])

\* C17: when RAG is requested and the index file is absent the search gives an
\* empty result with no warning and no error, also without an embedding model
\* in the configuration, and the completion is requested with the user's
\* question
C17_NoIndexNoWarning ==
    (ragRequested /\ ~SearchIndexExists(env, disk)) =>
        /\ searchOutcome = "noIndex"
        /\ ~warned
        /\ similarities = <<>>
        /\ askResult \in AfterSearchResults
        /\ Sent => lastSent = SentWithoutContext
        /\ (~askFlags.prompt /\ askResult = "ok") => Sent

\* a RAG question asked without index and without embedding model, sent to
\* the model
C17_Witness ==
    /\ ragRequested
    /\ ~SearchIndexExists(env, disk)
    /\ askConfig.loaded
    /\ askConfig.EmbeddingModel = ""
    /\ Sent
    /\ lastSent = SentWithoutContext

\* C18: a failure to create the search agent, to load the store or to search
\* is a warning only: no result is kept, no context message is added, and the
\* command goes on to request the completion with the user's question
C18_SearchFailureIsWarning ==
    searchOutcome \in SearchErrors =>
        /\ ragRequested
        /\ warned
        /\ similarities = <<>>
        /\ NoContextAdded
        /\ askResult \in AfterSearchResults
        /\ Sent => lastSent = SentWithoutContext
        /\ (~askFlags.prompt /\ askResult = "ok") => Sent

\* a later turn of an interactive session whose search failed and whose
\* question was sent to the model
C18_Witness ==
    /\ askFlags.prompt
    /\ turns >= 2
    /\ searchOutcome = "errSearch"
    /\ \E i \in DOMAIN histBefore : histBefore[i].role = "assistant"
    /\ Sent
    /\ lastSent[Len(lastSent)] = UserMessage(actualQuestion)

\* C19: with an empty result sequence the messages sent for the question are
\* the messages before it followed by the user message: no context message
\* is inserted
C19_EmptyResultsNoContext ==
    similarities = <<>> =>
        /\ NoContextAdded
        /\ Sent => lastSent = SentWithoutContext

\* a RAG question whose search ran and matched nothing, sent to the model
C19_Witness ==
    /\ searchOutcome = "searched"
    /\ similarities = <<>>
    /\ Sent

\* the content of the context message of a result sequence
C20_Expected(sims) == ContextLabel \o StringsJoin(sims, "\n\n")

\* C20: with one or more results the messages sent for the question are the
\* messages before it, then one context message (the label, then the results
\* in the order returned, joined by the separator), then the user message
C20_OneContextMessage ==
    (Sent /\ similarities /= <<>>) =>
        \E role \in {"system", "user"} :
            lastSent = histBefore
                          \o <<[role |-> role, content |-> C20_Expected(similarities)]>>
                          \o <<UserMessage(actualQuestion)>>

\* a question with two results and a --use file, sent to the model
C20_Witness ==
    /\ Sent
    /\ Len(similarities) = 2
    /\ askFlags.useFile
    /\ IsContext(lastSent[Len(lastSent) - 1])

\* the RAG block of the current question is behind: processQuestion has built
\* or is building the messages, or the loop is at the completion
SearchStepDone ==
    askPc \in {"pqBuild", "pqComplete", "fromComplete", "turnComplete"} \/ Sent

\* the question was asked with --rag or begins with "#rag "
C21_Requested == askFlags.rag \/ HasPrefix(userInput, RagPrefix)

\* C21: the similarity search of a question (the RAG block: the search agent
\* is asked for, and the search runs when there is one) is performed if and only
\* if --rag is set or the question begins with "#rag "; for any other question
\* no search agent is asked for, no search runs and no context message is added
C21_SearchIffRequested ==
    SearchStepDone =>
        /\ (searchOutcome /= "none") <=> C21_Requested
        /\ ~C21_Requested =>
              /\ ~ragRequested
              /\ ~searchCall.called
              /\ similarities = <<>>
              /\ NoContextAdded

C21_Witness ==
    /\ ~askFlags.rag
    /\ HasPrefix(userInput, RagPrefix)
    /\ searchCall.called
    /\ Sent
    /\ ~NoContextAdded

\* C22: within one interactive session the persisted store is loaded from disk
\* at most once, however many RAG queries the session makes
C22_StoreLoadedOnce == askFlags.prompt => storeLoads <= 1

\* C23: after a configuration file is loaded, the similarity threshold is 0.7
\* (7 tenths) when the file gives no cosine-limit or gives 0 and the file's value
\* otherwise, and the search is called with that threshold
C23_ThresholdFromConfig ==
    askConfig.loaded =>
        /\ askConfig.CosineLimit =
              IF ~askConfig.file.given \/ askConfig.file.value = 0
              THEN 7
              ELSE askConfig.file.value
        /\ searchCall.called => searchCall.threshold = askConfig.CosineLimit

C23_Witness ==
    /\ askConfig.loaded
    /\ askConfig.file = [given |-> TRUE, value |-> 5]
    /\ searchCall.called
    /\ searchCall.threshold = 5
    /\ searchOutcome = "searched"

\* the input just handled at the prompt asked nothing: neither a search nor a
\* chat completion was requested for it
NothingRequested ==
    /\ lastSent = <<>>
    /\ ~searchCall.called
    /\ searchOutcome = "none"

\* C24: after /clear with a readable system file the history is one system
\* message with the instructions just read, followed by the --use file content
\* when that flag was given and the file is readable, and nothing else; with an
\* unreadable system file the history is unchanged; no completion is requested
C24_ClearResetsHistory ==
    (askPc = "prompt" /\ inputLog.input = "/clear") =>
        /\ inputLog.readOk =>
              messages = <<SystemMessage(inputLog.system)>>
                            \o (IF askFlags.useFile /\ inputLog.useOk
                                THEN <<SystemMessage(UseText)>> ELSE <<>>)
        /\ ~inputLog.readOk => messages = histBefore
        /\ NothingRequested

C24_Witness ==
    /\ askPc = "prompt"
    /\ inputLog = [input |-> "/clear", readOk |-> TRUE, useOk |-> TRUE, system |-> "sys2"]
    /\ askFlags.useFile
    /\ \E i \in DOMAIN histBefore : IsContext(histBefore[i])
    /\ \E i \in DOMAIN histBefore : histBefore[i] = AssistantMessage(AnswerText)
    /\ Len(messages) = 2

\* C25: /use <path> with a readable file appends one system message with the
\* file content to the end of the history and changes no other message; with an
\* empty path or an unreadable file the history is unchanged; neither a search
\* nor a completion is requested
C25_UseAppendsOneMessage ==
    (askPc = "prompt" /\ HasPrefix(inputLog.input, "/use ")) =>
        /\ messages =
              IF TrimSpace(TrimPrefix(inputLog.input, "/use ")) /= "" /\ inputLog.readOk
              THEN histBefore \o <<SystemMessage(ExtraText)>>
              ELSE histBefore
        /\ NothingRequested

C25_Witness ==
    /\ askPc = "prompt"
    /\ inputLog.input = "/use f"
    /\ inputLog.readOk
    /\ Len(histBefore) >= 3
    /\ Len(messages) = Len(histBefore) + 1

-----------------------------------------------------------------------------
(* The similarity search of the embedding store, and the library functions
   applied on their own to drawn inputs *)

\* embedding vectors: two components, whole magnitudes
Vectors == {<<0, 0>>, <<1, 0>>, <<0, 1>>, <<3, 4>>, <<4, 3>>, <<-1, 0>>}

Dot(a, b) == a[1] * b[1] + a[2] * b[2]

\* ||a||, a whole number for the vectors above
Magnitude(a) == CHOOSE n \in 0 .. 5 : n * n = Dot(a, a)

\* dot(a,b) / (||a|| * ||b||) in hundredths; 0 when a magnitude is 0
CosineSimilarity(a, b) ==
    IF Magnitude(a) = 0 \/ Magnitude(b) = 0 THEN 0
    ELSE (100 * Dot(a, b)) \div (Magnitude(a) * Magnitude(b))

\* the records with the score of each against the query, in insertion order
Scored(records, query) ==
    [ i \in DOMAIN records |->
        [ content |-> records[i].content,
          score   |-> CosineSimilarity(query, records[i].vector) ] ]

\* an insertion in front of the results of equal score
InsertByScore_BeforeTies(sorted, r) ==
    LET k == Cardinality({i \in DOMAIN sorted : sorted[i].score > r.score})
    IN  SubSeq(sorted, 1, k) \o <<r>> \o SubSeq(sorted, k + 1, Len(sorted))

\* r inserted into results sorted by descending score, behind those of equal
\* score
InsertByScore(sorted, r) ==
    LET k == Cardinality({i \in DOMAIN sorted : sorted[i].score >= r.score})
    IN  SubSeq(sorted, 1, k) \o <<r>> \o SubSeq(sorted, k + 1, Len(sorted))

\* descending by score, ties in the order of seq
RECURSIVE SortByScore(_)
SortByScore(seq) ==
    IF seq = <<>> THEN <<>>
    ELSE InsertByScore(SortByScore(SubSeq(seq, 1, Len(seq) - 1)), seq[Len(seq)])

\* a search that ranks every record
StoreSearch_NoThreshold(records, query, threshold) ==
    SortByScore(Scored(records, query))

\* search(queryVector, threshold) of the embedding store; threshold in hundredths
StoreSearch(records, query, threshold) ==
    LET Kept(r) == r.score >= threshold
    IN  SortByScore(SelectSeq(Scored(records, query), Kept))

\* the texts of at most n characters over a two-letter alphabet
RECURSIVE Texts(_)
Texts(n) ==
    IF n = 0 THEN {""}
    ELSE LET T == Texts(n - 1)
         IN  T \cup {t \o c : t \in T, c \in {"a", "b"}}

\* the stores of at most n records; the content of a record names its position
RECURSIVE Stores(_)
Stores(n) ==
    IF n = 0 THEN {<<>>}
    ELSE LET S == Stores(n - 1)
         IN  S \cup { Append(st, [ id      |-> "id" \o ToString(Len(st) + 1),
                                   content |-> "c" \o ToString(Len(st) + 1),
                                   vector  |-> v ]) : st \in S, v \in Vectors }

\* thresholds in hundredths
Thresholds == {-100, 0, 60, 70, 100}

\* the calls of rag.ChunkText with 0 <= overlap < chunkSize
ChunkCalls ==
    { [NoCall EXCEPT !.op = "chunk", !.text = t, !.chunkSize = n, !.overlap = o] :
        t \in Texts(MaxTextLen), n \in 1 .. MaxWindow, o \in 0 .. MaxWindow - 1 }

\* the searches
SearchCalls ==
    { [NoCall EXCEPT !.op = "search", !.records = st, !.query = q, !.threshold = th] :
        st \in Stores(MaxRecords), q \in Vectors, th \in Thresholds }

\* the searches for .budgie: every chain of directories down to MaxDepth with
\* any entry .budgie in each, started in any directory of the chain, given as an
\* absolute path or as "." in that working directory
FindRootCalls ==
    { [NoCall EXCEPT !.op = "findRoot", !.tree = t, !.cwd = LevelPath(k),
                     !.start = IF relative THEN Rel(<<>>) ELSE LevelPath(k)] :
        t \in [0 .. MaxDepth -> {"none", "dir", "file"}],
        k \in 0 .. MaxDepth,
        relative \in BOOLEAN }

\* one call of a library function is about to be made; no command runs
InitFn ==
    /\ env \in {e \in Envs : /\ e.onDuplicate = "reject" /\ e.cwd = ProjectRoot
                             /\ e.hasBudgie /\ e.prior = NoFile}
    /\ GenIdle
    /\ AskIdle
    /\ InitIdle
    /\ EscIdle
    /\ fn \in {c \in ChunkCalls : c.overlap < c.chunkSize} \cup SearchCalls
                \cup FindRootCalls

\* chunks = rag.ChunkText(content, chunkSize, overlap)
ApplyChunkText ==
    /\ fn.op = "chunk"
    /\ ~fn.done
    /\ fn' = [fn EXCEPT !.done = TRUE,
                        !.chunks = ChunkText(fn.text, fn.chunkSize, fn.overlap)]
    /\ UNCHANGED <<flags, env, searchPath>>
    /\ UNCHANGED <<genVars, askVars, initVars, escVars>>

\* the search of the store for a query vector
ApplySearch ==
    /\ fn.op = "search"
    /\ ~fn.done
    /\ fn' = [fn EXCEPT !.done = TRUE,
                        !.results = StoreSearch(fn.records, fn.query, fn.threshold)]
    /\ UNCHANGED <<flags, env, searchPath>>
    /\ UNCHANGED <<genVars, askVars, initVars, escVars>>

\* rootPath, err := FindRootBudgieDir(workingDir)
ApplyFindRoot ==
    /\ fn.op = "findRoot"
    /\ ~fn.done
    /\ fn' = [fn EXCEPT !.done = TRUE,
                        !.root = FindRootBudgieDir([cwd |-> fn.cwd, tree |-> fn.tree],
                                                   fn.start)]
    /\ UNCHANGED <<flags, env, searchPath>>
    /\ UNCHANGED <<genVars, askVars, initVars, escVars>>

NextFn ==
    \/ ApplyChunkText
    \/ ApplySearch
    \/ ApplyFindRoot

SpecFn == InitFn /\ [][NextFn]_vars

-----------------------------------------------------------------------------
(* Properties of the similarity search and of the fixed-size chunker *)

\* a search of the store has been made
Searched == fn.op = "search" /\ fn.done

\* the fixed-size chunker has been applied
Chunked == fn.op = "chunk" /\ fn.done

\* C26: the similarity search returns no result whose cosine score is below
\* the threshold, whatever the store, the query vector and the threshold
C26_NoResultBelowThreshold ==
    Searched => \A i \in DOMAIN fn.results : fn.results[i].score >= fn.threshold

C26_Witness ==
    /\ Searched
    /\ fn.threshold = 70
    /\ Len(fn.records) = 3
    /\ Len(fn.results) = 2
    /\ \E i \in DOMAIN fn.records :
          CosineSimilarity(fn.query, fn.records[i].vector) = 60

\* the position at which the record with this content was inserted
InsertedAt(content) ==
    CHOOSE k \in DOMAIN fn.records : fn.records[k].content = content

\* C27: the results of the similarity search are sorted by descending score,
\* and results of equal score are in the order in which their records were
\* inserted into the store
C27_SortedTiesByInsertion ==
    Searched =>
        \A i, j \in DOMAIN fn.results :
            i < j =>
                \/ fn.results[i].score > fn.results[j].score
                \/ /\ fn.results[i].score = fn.results[j].score
                   /\ InsertedAt(fn.results[i].content) < InsertedAt(fn.results[j].content)

C27_Witness ==
    /\ Searched
    /\ Len(fn.results) = 3
    /\ fn.results[1].score > fn.results[2].score
    /\ fn.results[2].score = fn.results[3].score
    /\ fn.results[1].content = "c2"

\* C28: for a non-empty text and chunk size n > 0, chunking with overlap 0
\* gives chunks whose concatenation in order is the text, each of n characters
\* except possibly the last
C28_ChunksRebuildText ==
    (Chunked /\ fn.overlap = 0 /\ fn.text /= "") =>
        /\ StringsJoin(fn.chunks, "") = fn.text
        /\ \A i \in DOMAIN fn.chunks :
              IF i < Len(fn.chunks)
              THEN Len(fn.chunks[i]) = fn.chunkSize
              ELSE Len(fn.chunks[i]) \in 1 .. fn.chunkSize

C28_Witness ==
    /\ Chunked
    /\ fn.overlap = 0
    /\ Len(fn.text) = 5
    /\ fn.chunkSize = 2
    /\ Len(fn.chunks) = 3
    /\ Len(fn.chunks[3]) = 1

\* the last n characters of s
LastChars(s, n) == IF Len(s) <= n THEN s ELSE SubSeq(s, Len(s) - n + 1, Len(s))

-----------------------------------------------------------------------------
(* The init command: cmd.RunInit *)

\* the templates handed to RunInit
DefaultConfigContent == "config"

DefaultSystemContent == "system"

DefaultDocsReadmeContent == "readme"

\* content of a file that was there before the command
OldContent == "old"

\* the directory a path is in, for the paths below .budgie
ParentOf(path) ==
    IF path = InitReadmePath THEN InitDocsDir ELSE BudgieDir

\* the working directories the command can start in: no .budgie, a file of
\* that name, or a .budgie directory with any of the entries below it
InitialFs ==
    { fs \in [InitPaths -> {"none", "dir", OldContent}] :
        /\ fs[InitDocsDir] \in {"none", "dir"}
        /\ fs[InitConfigPath] \in {"none", OldContent}
        /\ fs[InitSystemPath] \in {"none", OldContent}
        /\ fs[InitReadmePath] \in {"none", OldContent}
        /\ \A p \in InitPaths \ {BudgieDir} :
              fs[p] /= "none" => fs[ParentOf(p)] = "dir" }

\* the calls of RunInit that can fail
InitFaults ==
    {"none", "stat", "mkdirBudgie", "mkdirDocs", "writeConfig", "writeSystem",
     "writeReadme"}

\* a check that never finds the directory
BudgieDirFound_Never(fs, fault) == FALSE

\* _, err := os.Stat(budgieDir); !os.IsNotExist(err): the entry exists, or Stat
\* failed with another error
BudgieDirFound(fs, fault) == fs[BudgieDir] /= "none" \/ fault = "stat"

\* os.MkdirAll(path): nothing to do for a directory, an error for a file
MkdirAll(fs, path, fails) ==
    IF fails \/ fs[path] \notin {"none", "dir"}
    THEN [ok |-> FALSE, fs |-> fs]
    ELSE [ok |-> TRUE, fs |-> [fs EXCEPT ![path] = "dir"]]

\* os.WriteFile(path, content): creates the file or replaces its content
WriteFile(fs, path, content, fails) ==
    IF fails \/ fs[ParentOf(path)] /= "dir" \/ fs[path] = "dir"
    THEN [ok |-> FALSE, fs |-> fs]
    ELSE [ok |-> TRUE, fs |-> [fs EXCEPT ![path] = content]]

\* the command starts in some working directory
InitRunInit ==
    /\ env \in {e \in Envs : /\ e.onDuplicate = "reject" /\ e.cwd = ProjectRoot
                             /\ e.hasBudgie /\ e.prior = NoFile}
    /\ GenIdle
    /\ AskIdle
    /\ FnIdle
    /\ EscIdle
    /\ initPc = "stat"
    /\ initFs \in InitialFs
    /\ initBefore = initFs
    /\ initResult = "running"
    /\ initFault \in InitFaults

\* what no step of RunInit changes
RunInitFrame ==
    /\ UNCHANGED <<initFault, initBefore>>
    /\ UNCHANGED <<flags, env, searchPath>>
    /\ UNCHANGED <<genVars, askVars, fnVars, escVars>>

\* one file-system call of RunInit: on an error the command returns it
RunInitStep(at, next, r, err) ==
    /\ initPc = at
    /\ initFs' = r.fs
    /\ IF r.ok
       THEN /\ initPc' = next
            /\ initResult' = IF next = "returned" THEN "ok" ELSE initResult
       ELSE /\ initPc' = "returned"
            /\ initResult' = err
    /\ RunInitFrame

\* lines 17-20
RunInitStat ==
    /\ initPc = "stat"
    /\ IF BudgieDirFound(initFs, initFault)
       THEN initPc' = "returned" /\ initResult' = "ErrAlreadyExists"
       ELSE initPc' = "mkdirBudgie" /\ UNCHANGED initResult
    /\ UNCHANGED initFs
    /\ RunInitFrame

\* lines 24-27
RunInitMkdirBudgie ==
    RunInitStep("mkdirBudgie", "mkdirDocs",
                MkdirAll(initFs, BudgieDir, initFault = "mkdirBudgie"),
                "ErrCreateBudgieDir")

\* lines 29-32
RunInitMkdirDocs ==
    RunInitStep("mkdirDocs", "writeConfig",
                MkdirAll(initFs, InitDocsDir, initFault = "mkdirDocs"),
                "ErrCreateDocsDir")

\* lines 34-38
RunInitWriteConfig ==
    RunInitStep("writeConfig", "writeSystem",
                WriteFile(initFs, InitConfigPath, DefaultConfigContent,
                          initFault = "writeConfig"),
                "ErrWriteConfig")

\* lines 40-44
RunInitWriteSystem ==
    RunInitStep("writeSystem", "writeReadme",
                WriteFile(initFs, InitSystemPath, DefaultSystemContent,
                          initFault = "writeSystem"),
                "ErrWriteSystem")

\* lines 46-68
RunInitWriteReadme ==
    RunInitStep("writeReadme", "returned",
                WriteFile(initFs, InitReadmePath, DefaultDocsReadmeContent,
                          initFault = "writeReadme"),
                "ErrWriteReadme")

NextRunInit ==
    \/ RunInitStat
    \/ RunInitMkdirBudgie
    \/ RunInitMkdirDocs
    \/ RunInitWriteConfig
    \/ RunInitWriteSystem
    \/ RunInitWriteReadme

SpecRunInit == InitRunInit /\ [][NextRunInit]_vars

\* the project that a successful init leaves
InitializedFs ==
    [ p \in InitPaths |->
        CASE p = InitConfigPath -> DefaultConfigContent
          [] p = InitSystemPath -> DefaultSystemContent
          [] p = InitReadmePath -> DefaultDocsReadmeContent
          [] OTHER              -> "dir" ]

\* C30: the init command run where .budgie already exists returns an error and
\* creates or overwrites no file or directory; run where none exists (and no
\* file-system call fails) it creates .budgie, .budgie/docs, the config file,
\* the system instructions file and docs/README.md
C30_InitOnlyWhereAbsent ==
    /\ initBefore[BudgieDir] /= "none" =>
          /\ initFs = initBefore
          /\ initPc = "returned" => initResult = "ErrAlreadyExists"
    /\ (initPc = "returned" /\ initBefore[BudgieDir] = "none" /\ initFault = "none") =>
          /\ initResult = "ok"
          /\ initFs = InitializedFs

C30_Witness ==
    /\ initPc = "returned"
    /\ initResult = "ErrAlreadyExists"
    /\ initFault = "none"
    /\ initBefore[BudgieDir] = "dir"
    /\ initBefore[InitDocsDir] = "none"
    /\ initBefore[InitConfigPath] = OldContent

-----------------------------------------------------------------------------
(* Properties of the conversation history and of the questions sent *)

\* C33: at every input prompt of an interactive session every user question in
\* the history is followed by the assistant response to it, and a turn that
\* failed has left neither its question nor its context message in the history
C33_EveryQuestionAnswered ==
    askPc = "prompt" =>
        /\ \A i \in DOMAIN messages :
              messages[i].role = "user" =>
                  /\ i < Len(messages)
                  /\ messages[i + 1].role = "assistant"
        /\ (userInput /= "" /\ messages[Len(messages)].role /= "assistant") =>
              messages = histBefore

\* the user question of the last completion requested: its last message
SentQuestion == lastSent[Len(lastSent)]

\* C34: no chat completion is requested whose user question is the empty
\* string, in single-question mode, in interactive mode, with --from, with /from
\* and for an input that is only the "#rag " prefix
C34_NoEmptyQuestionSent ==
    Sent => (SentQuestion.role = "user" /\ SentQuestion.content /= "")

\* the command runs in single-question mode
SingleMode == ~askFlags.prompt

\* what an interactive session sends for its first question, with the system
\* file, --use file, question and search results of the current question
FirstTurnMessages ==
    Append(AddContext(BaseMessages(askFlags.useFile), ragRequested, similarities),
           UserMessage(actualQuestion))

\* C35: for the same system file, --use file, question and search results, the
\* messages sent in single-question mode are those sent for the first question
\* of an interactive session: same messages, same roles, same order
C35_SameMessagesInBothModes ==
    /\ (SingleMode /\ Sent) => lastSent = FirstTurnMessages
    /\ (~SingleMode /\ Sent /\ histBefore = BaseMessages(askFlags.useFile)) =>
          lastSent = FirstTurnMessages

\* the input without one leading "#rag ", or the input itself when it does not
\* begin with it
WithoutOnePrefix(input) ==
    IF HasPrefix(input, RagPrefix)
    THEN SubSeq(input, Len(RagPrefix) + 1, Len(input))
    ELSE input

\* C36: the text used as the query of the similarity search and as the user
\* message sent to the model is the input with exactly one leading "#rag "
\* removed when the input begins with it, and the unchanged input otherwise,
\* also when --rag is set
C36_QuestionWithoutOnePrefix ==
    SearchStepDone =>
        /\ actualQuestion = WithoutOnePrefix(userInput)
        /\ searchCall.called => searchCall.question = WithoutOnePrefix(userInput)
        /\ Sent => SentQuestion = UserMessage(WithoutOnePrefix(userInput))

C36_Witness ==
    /\ askFlags.rag
    /\ userInput = "#rag #rag q"
    /\ searchCall.called
    /\ searchCall.question = "#rag q"
    /\ Sent
    /\ SentQuestion = UserMessage("#rag q")

\* ---------------------------------------------------------------------------
\* Properties of the search for the project root
\* ---------------------------------------------------------------------------

\* the directory a search starts in, and the directories above it
SelfAndAncestors(p) == {AbsPath(SubSeq(p.parts, 1, k)) : k \in 0 .. Len(p.parts)}

\* the directories, among the start directory of the call and those above it,
\* that hold a directory named .budgie
WithBudgieDir ==
    {d \in SelfAndAncestors(Abs(fn.cwd, fn.start)) : fn.tree[Len(d.parts)] = "dir"}

\* C37: FindRootBudgieDir returns for every start path; it returns the nearest
\* directory, among the start directory and those above it, that holds a
\* directory named .budgie, and fails exactly when none of them does.
C37_NearestBudgieDir ==
    (fn.op = "findRoot" /\ fn.done) =>
        /\ fn.root.ok <=> WithBudgieDir # {}
        /\ fn.root.ok =>
            /\ fn.root.path \in WithBudgieDir
            /\ \A d \in WithBudgieDir : Len(d.parts) <= Len(fn.root.path.parts)
        /\ ~fn.root.ok => fn.root.path = NoPath

\* a search started at the deepest directory, whose .budgie is a plain file,
\* has passed a directory without .budgie and returned the nearer of the two
\* directories that hold one
C37_Witness ==
    /\ fn.op = "findRoot"
    /\ fn.done
    /\ Abs(fn.cwd, fn.start) = LevelPath(MaxDepth)
    /\ fn.tree[MaxDepth] = "file"
    /\ fn.tree[MaxDepth - 1] = "none"
    /\ fn.tree[MaxDepth - 2] = "dir"
    /\ fn.tree[0] = "dir"
    /\ fn.root = [ok |-> TRUE, path |-> LevelPath(MaxDepth - 2)]

\* ---------------------------------------------------------------------------
\* The ESC listeners of an interactive session
\* (utils.SetupEscListener, utils.go:50-78; the two streaming turns of RunAsk,
\* part_010:450-467 and 640-658)
\*
\* Every turn creates a context t, registers its cancel with defer, and starts
\* a listener goroutine for it.  A key press is modelled at the moment some
\* reader takes the key: a listener blocked in keyboard.GetKey, or the input
\* prompt.  The keyboard library is not part of the repository: opening a
\* keyboard that is already opened either fails or succeeds.
\* ---------------------------------------------------------------------------

Keys == {"esc", "other"}

\* a stream is in flight
Streaming == escPc \in {"fromStreaming", "streaming"}

\* the listener goroutine of turn i has been started and has not returned
Alive(i) == i \in 1 .. Len(listeners) /\ listeners[i] # "returned"

InitEsc ==
    /\ env \in {e \in Envs : /\ e.onDuplicate = "reject" /\ e.cwd = ProjectRoot
                             /\ e.hasBudgie /\ e.prior = NoFile}
    /\ GenIdle
    /\ AskIdle
    /\ FnIdle
    /\ InitIdle
    /\ escPc \in {"from", "prompt"}
    /\ escTurn = 0
    /\ listeners = <<>>
    /\ cancelled = {}
    /\ keyboardOpen = FALSE
    /\ lastKey = NoKey
    /\ streamOutcome = "none"

\* what no step of the session or of a listener changes
EscFrame ==
    /\ UNCHANGED <<flags, env, searchPath>>
    /\ UNCHANGED <<genVars, askVars, fnVars, initVars>>

\* ctx, cancel := context.WithCancel(context.Background()); defer cancel();
\* utils.SetupEscListener(ctx, cancel); agent.ChatCompletionStream(ctx, ...)
\* The deferred cancel runs when RunAsk returns, not when the turn ends.
StartStream ==
    /\ escPc \in {"from", "prompt"}
    /\ escTurn < MaxTurns
    /\ escTurn' = escTurn + 1
    /\ listeners' = Append(listeners, "open")
    /\ escPc' = IF escPc = "from" THEN "fromStreaming" ELSE "streaming"
    /\ streamOutcome' = "none"
    /\ UNCHANGED <<cancelled, keyboardOpen, lastKey>>
    /\ EscFrame

\* the deferred cancel calls of RunAsk, run when it returns
DeferredCancels == cancelled \cup (1 .. escTurn)

\* ChatCompletionStream returns: after the --from turn an error is returned by
\* RunAsk, in the loop it is printed and the loop continues with the prompt
StreamEnds ==
    /\ Streaming
    /\ \E outcome \in {"ok", "error"} :
        /\ streamOutcome' = outcome
        /\ IF escPc = "fromStreaming" /\ outcome = "error"
           THEN /\ escPc' = "returned"
                /\ cancelled' = DeferredCancels
           ELSE /\ escPc' = "prompt"
                /\ UNCHANGED cancelled
    /\ UNCHANGED <<escTurn, listeners, keyboardOpen, lastKey>>
    /\ EscFrame

\* the input prompt reads a key of the user's input
PromptReadsKey ==
    /\ escPc = "prompt"
    /\ \E k \in Keys :
        lastKey' = [key |-> k, reader |-> 0, at |-> "prompt", stream |-> 0]
    /\ UNCHANGED <<escPc, escTurn, listeners, cancelled, keyboardOpen, streamOutcome>>
    /\ EscFrame

\* "/bye", or an error of the prompt: RunAsk returns
SessionReturns ==
    /\ escPc = "prompt"
    /\ escPc' = "returned"
    /\ cancelled' = DeferredCancels
    /\ UNCHANGED <<escTurn, listeners, keyboardOpen, lastKey, streamOutcome>>
    /\ EscFrame

\* err := keyboard.Open(); if err != nil { return }; defer keyboard.Close()
ListenerOpen(i) ==
    /\ i \in 1 .. Len(listeners)
    /\ listeners[i] = "open"
    /\ \E ok \in (IF keyboardOpen THEN BOOLEAN ELSE {TRUE}) :
        IF ok
        THEN /\ listeners' = [listeners EXCEPT ![i] = "select"]
             /\ keyboardOpen' = TRUE
        ELSE /\ listeners' = [listeners EXCEPT ![i] = "returned"]
             /\ UNCHANGED keyboardOpen
    /\ UNCHANGED <<escPc, escTurn, cancelled, lastKey, streamOutcome>>
    /\ EscFrame

\* select { case <-ctx.Done(): return; default: keyboard.GetKey() ... }
ListenerSelect(i) ==
    /\ i \in 1 .. Len(listeners)
    /\ listeners[i] = "select"
    /\ IF i \in cancelled
       THEN /\ listeners' = [listeners EXCEPT ![i] = "returned"]
            /\ keyboardOpen' = FALSE
       ELSE /\ listeners' = [listeners EXCEPT ![i] = "getkey"]
            /\ UNCHANGED keyboardOpen
    /\ UNCHANGED <<escPc, escTurn, cancelled, lastKey, streamOutcome>>
    /\ EscFrame

\* keyboard.GetKey() returns an error: continue
ListenerGetKeyError(i) ==
    /\ i \in 1 .. Len(listeners)
    /\ listeners[i] = "getkey"
    /\ ~keyboardOpen
    /\ listeners' = [listeners EXCEPT ![i] = "select"]
    /\ UNCHANGED <<escPc, escTurn, cancelled, keyboardOpen, lastKey, streamOutcome>>
    /\ EscFrame

\* keyboard.GetKey() returns a key: on ESC the listener cancels the context it
\* was started with and returns, closing the keyboard; any other key is dropped
ListenerGetKey(i) ==
    /\ i \in 1 .. Len(listeners)
    /\ listeners[i] = "getkey"
    /\ keyboardOpen
    /\ Streaming \/ escPc = "prompt"
    /\ \E k \in Keys :
        /\ lastKey' = [key |-> k, reader |-> i,
                       at |-> IF Streaming THEN "streaming" ELSE "prompt",
                       stream |-> IF Streaming THEN escTurn ELSE 0]
        /\ IF k = "esc"
           THEN /\ cancelled' = cancelled \cup {i}
                /\ listeners' = [listeners EXCEPT ![i] = "returned"]
                /\ keyboardOpen' = FALSE
           ELSE /\ listeners' = [listeners EXCEPT ![i] = "select"]
                /\ UNCHANGED <<cancelled, keyboardOpen>>
    /\ UNCHANGED <<escPc, escTurn, streamOutcome>>
    /\ EscFrame

NextEsc ==
    \/ StartStream
    \/ StreamEnds
    \/ PromptReadsKey
    \/ SessionReturns
    \/ \E i \in 1 .. MaxTurns : ListenerOpen(i)
    \/ \E i \in 1 .. MaxTurns : ListenerSelect(i)
    \/ \E i \in 1 .. MaxTurns : ListenerGetKeyError(i)
    \/ \E i \in 1 .. MaxTurns : ListenerGetKey(i)

SpecEsc == InitEsc /\ [][NextEsc]_vars

\* C32: the listener of a turn has returned when the next input prompt is
\* shown, however the stream ended; never are two listeners alive together;
\* and no key typed at the prompt is read by a listener.
C32_ListenerEndsWithItsTurn ==
    /\ escPc = "prompt" => \A i \in 1 .. Len(listeners) : ~Alive(i)
    /\ \A i, j \in 1 .. Len(listeners) : Alive(i) /\ Alive(j) => i = j
    /\ lastKey.at = "prompt" => lastKey.reader = 0

\* C31: an ESC read while a stream is in flight cancels the context of that
\* stream, in the first turn and in every later one.
C31_EscCancelsRunningStream ==
    (lastKey.key = "esc" /\ lastKey.at = "streaming") => lastKey.stream \in cancelled

=============================================================================
